---- MODULE Spec2Model ----
(***************************************************************************)
(* Acquisition and trigger-synchronisation engine of c2dataviewer:         *)
(* PlotWidget (bounded per-field buffers, array-id loss detection),        *)
(* Trigger (latch, window correlation, missed / data-behind recovery) and  *)
(* the plotting start/stop logic of ScopeControllerBase.                   *)
(*                                                                         *)
(* Python None is modelled by the sentinels NoTs / NoId (timestamps and    *)
(* ids are non-negative), an unset max_length by 0 (None and 0 are both    *)
(* falsy where ScopeController.monitor_callback tests it).  Dicts are      *)
(* functions whose DOMAIN is the set of keys present.                      *)
(*                                                                         *)
(* The frame-ready signal of the trigger engine is delivered to            *)
(* update_drawing as a queued call: `pending` counts the emissions not yet *)
(* consumed.  In free-running and sampling mode update_drawing is driven   *)
(* by the refresh timer.  Trigger.data_callback runs without the mutex, as *)
(* in the code.  Sample k of a source carries the time value TimeStep * k, *)
(* so that trigger timestamps fall before, on and between samples.         *)
(* `ev` records what the latest step did (operation, result of the         *)
(* timestamp search, emission, latch); `emitted`, `consumed` and           *)
(* `delivered` record emissions since the latest latch, whether            *)
(* finish_drawing consumed it, and whether the current subscription has    *)
(* delivered a value.                                                      *)
(*                                                                         *)
(* SpecThreads splits data_process and update_drawing at wait() and        *)
(* signal() of the PlotWidget mutex: `pc` is where the data thread and the *)
(* GUI thread are, `holder` who locked the mutex.                          *)
(*                                                                         *)
(* pvapy_plugins: `channels` holds the Channel objects a DataSource has    *)
(* handed out (position = identity), `channel_cache` maps a PV name to one *)
(* of them, `cev` records what the latest call did (status events          *)
(* delivered, exception, returned channel) and `last_status` the state of  *)
(* the latest status event of each channel.  Results of a strategy may     *)
(* reach their callbacks after the strategy was stopped.                   *)
(***************************************************************************)
EXTENDS Integers, Sequences, FiniteSets, TLC

\* ---------------------------------------------------------------- bounds
MaxBuf == 4
MaxBatch == 2
MaxTotal == 4
MaxTimed == 3
MaxPending == 2
MaxId == 3
MaxLost == 3

\* saturation point of a counter the code only compares with 0
MaxMissed == 1

\* Channel objects a DataSource constructs
MaxChan == 3

\* connection flags queued for the GUI thread, probes without an answer
MaxFlags == 2
MaxProbes == 1
MaxCount == 11
MaxEntries == 3

\* asynchronous gets of one channel in flight
MaxOutstanding == 2

\* ------------------------------------------------------------- constants
NoTs == -1
NoId == -1
NoIdx == -9
FirstCount == 1
TimeStep == 2
TimeField == "time"
DataTimeField == TimeField
ArrayFields == {"time", "y"}
MainId == "id"
Waveforms == {"w1", "w2"}
WaveId == [w \in Waveforms |-> IF w = "w1" THEN "w1.id" ELSE "w2.id"]
IdFields == {MainId} \cup {WaveId[w] : w \in Waveforms}
TriggerModes == {"none", "onchange", "gtthreshold", "ltthreshold"}
TriggerValues == {-1, 1}

\* pvapy_plugins: the connection states, None, and what the callers pass
ConnectionState == {"CONNECTED", "CONNECTING", "DISCONNECTING",
                    "DISCONNECTED", "FAILED_TO_CONNECT", "EMPTY"}
None == "None"
NoChannel == 0
PvNames == {"a", "b"}
Providers == {"pva", "ca"}
Callbacks == {"cb1", "cb2"}
\* no rate (None) and a polling rate
Rates == {0, 1}

\* Waveform: the PV names of the waveform rows, their characters, and the
\* field a waveform PV delivers
WaveformNames == {"A", "AB", "B"}
Chars == [A |-> <<"A">>, AB |-> <<"A", "B">>, B |-> <<"B">>,
          READ |-> <<"R", "E", "A", "D">>]
SEPARATOR == "."
WaveformField == "value"

\* a string field of an object: an alarm message
AlarmMessage == "READ"

VARIABLES
    max_length, sampling_mode, trigger_mode, trigger_type, trigger_level,
    plotting_started, trigger_is_monitor, first_data, mutex_held,
    data, sample_data, trig_data,
    is_triggered_, trigger_data_done, data_behind, trigger_count,
    trigger_timestamp, trigger_value, trigger_index, display_start_index,
    missed_triggers, missed_adjust_buffer_size,
    current_arrayid, lastArrayId, lostArrays, last_test_array,
    nextSeq, pending, delivered, emitted, consumed, ev,
    pc, holder,
    channels, channel_cache, channel, status_callback, last_status, cev,
    connection_timer, flag_queue, probes, sev,
    auto_buffer_size, object_size, buffer_unit, buffer_value,
    cfg, channel_params, outstanding

cfgvars == <<sampling_mode, trigger_mode, trigger_type, trigger_level,
             plotting_started, trigger_is_monitor, current_arrayid>>
\* the threads that take the mutex: where each is, and which one holds it
thrvars == <<pc, holder>>
\* the DataSource and its Channel objects; no operation of the plot writes
\* them
chanvars == <<channels, channel_cache, channel, status_callback, last_status,
              cev>>
\* ScopeController: the connection-check timer, the flags emitted on
\* connection_timer_signal and not yet handled, the probes sent and not yet
\* answered, and what the latest handler of the controller did
ctlvars == <<connection_timer, flag_queue, probes, sev>>
bufvars_but_data == <<sample_data, trig_data, first_data, mutex_held, nextSeq,
                      thrvars, chanvars, ctlvars>>
bufvars == <<data, bufvars_but_data>>
trgvars == <<is_triggered_, trigger_data_done, data_behind, trigger_count,
             trigger_timestamp, trigger_value, trigger_index,
             display_start_index, missed_triggers, missed_adjust_buffer_size>>
\* ScopeController: whether the buffer follows the object size, the samples
\* per object, the unit of the 'Buffer (unit)' parameter and its value
acqvars == <<auto_buffer_size, object_size, buffer_unit, buffer_value>>
\* Configure: the configuration file read at start, and the channel
\* parameters assembled from it
confvars == <<cfg, channel_params>>
\* what only monitor_callback, data_process and Configure.parse write
\* PollStrategy: the asynchronous gets of each channel that are not yet
\* answered
pollvars == <<outstanding>>
idvars == <<lastArrayId, lostArrays, last_test_array, acqvars, confvars,
            pollvars>>
envvars == <<pending, delivered, emitted, consumed>>
vars == <<max_length, cfgvars, bufvars, trgvars, idvars, envvars, ev>>

\* --------------------------------------------------------------- helpers
Min(a, b) == IF a < b THEN a ELSE b
Max(a, b) == IF a > b THEN a ELSE b

\* dict.get(k, [])
Get(d, k) == IF k \in DOMAIN d THEN d[k] ELSE << >>

\* d[k] = v
Put(d, k, v) == [x \in (DOMAIN d) \cup {k} |-> IF x = k THEN v ELSE d[x]]

\* a slice that keeps one element too many
LastN_one_more(arr, n) ==
    IF n = 0 \/ n + 1 >= Len(arr) THEN arr
    ELSE SubSeq(arr, Len(arr) - n, Len(arr))

\* arr[-n:] for n >= 0 (Python: arr[-0:] is the whole array)
LastN(arr, n) ==
    IF n = 0 \/ n >= Len(arr) THEN arr
    ELSE SubSeq(arr, Len(arr) - n + 1, Len(arr))

\* a slice taken one element late
Slice_one_late(arr, a, b) ==
    IF a + 1 >= Min(b + 1, Len(arr)) THEN << >>
    ELSE SubSeq(arr, a + 2, Min(b + 1, Len(arr)))

\* arr[a:b] for 0 <= a and 0 <= b
Slice(arr, a, b) ==
    IF a >= Min(b, Len(arr)) THEN << >>
    ELSE SubSeq(arr, a + 1, Min(b, Len(arr)))

\* half of n rounded up
Half_rounded_up(n) == (n + 1) \div 2

\* int(n / 2) for n >= 0
Half(n) == n \div 2

\* np.searchsorted(arr, x) on a sorted array: leftmost insertion index
SearchSorted(arr, x) == Cardinality({i \in 1..Len(arr) : arr[i] < x})

\* the value a source delivers as its s-th sample of field k
Val(k, s) == IF k = TimeField THEN TimeStep * s ELSE s
Produce(k, n) == [i \in 1..n |-> Val(k, nextSeq[k] + i)]

\* the thread of the data monitor (data_process) and the GUI thread
\* (update_drawing)
Threads == {"ingest", "render"}

\* ------------------------------------------------------------------ Init
NoRecommendation == [num |-> 0, den |-> 1]
NoEvent == [op |-> "init", idx |-> NoIdx, emit |-> FALSE, latched |-> FALSE,
            first |-> FALSE]
Event(op) == [NoEvent EXCEPT !.op = op]

\* DataSource.__init__: no channel, empty cache, no status callback
NoChannelEvent ==
    [op |-> "init", ch |-> NoChannel, sent |-> << >>, raised |-> FALSE,
     ret |-> NoChannel, made |-> FALSE, probe |-> "none", err |-> FALSE,
     name |-> None, provider |-> None, cb |-> None, rate |-> 0,
     handed |-> FALSE]

InitDataSource ==
    /\ channels = << >>
    /\ channel_cache = [n \in PvNames |-> NoChannel]
    /\ channel = NoChannel
    /\ status_callback = None
    /\ last_status = << >>
    /\ cev = NoChannelEvent

\* Configuration.get(Scope.CHANNEL_COUNT): what stands for an absent COUNT
NoCount == -1
\* an application started without a CHANNELS section
NoConfig == [count |-> NoCount, section |-> << >>]

\* ScopeController.__init__: timer created and not started
NoHandler ==
    [op |-> "init", flag |-> FALSE, restart |-> FALSE, refreshed |-> FALSE,
     raised |-> FALSE]

InitScopeController ==
    /\ connection_timer = FALSE
    /\ flag_queue = << >>
    /\ probes = 0
    /\ sev = NoHandler
    /\ auto_buffer_size = TRUE
    /\ object_size = 0
    /\ buffer_unit = "Samples"
    /\ buffer_value = 0
    /\ cfg = NoConfig
    /\ channel_params = << >>
    /\ outstanding = [c \in 1..MaxChan |-> 0]

\* PlotWidget.__init__: buffers
InitPlotWidget ==
    /\ InitScopeController
    /\ first_data = TRUE
    /\ mutex_held = FALSE
    /\ data = << >>
    /\ sample_data = << >>
    /\ trig_data = << >>
    /\ nextSeq = [k \in ArrayFields |-> 0]
    /\ pc = [t \in Threads |-> "idle"]
    /\ holder = "none"

\* the plot of an application that has opened no channel yet
InitBuffers ==
    /\ InitPlotWidget
    /\ InitDataSource

\* Trigger.__init__
InitEngine ==
    /\ trigger_level = 0
    /\ data_behind = FALSE
    /\ trigger_index = 0
    /\ display_start_index = 0
    /\ missed_triggers = 0
    /\ missed_adjust_buffer_size = NoRecommendation
    /\ consumed = FALSE
    /\ ev = NoEvent

\* Trigger.__init__: no trigger latched, no frame-ready signal queued
InitArmed ==
    /\ is_triggered_ = FALSE
    /\ trigger_data_done = TRUE
    /\ trigger_timestamp = NoTs
    /\ trigger_value = 0
    /\ pending = 0
    /\ emitted = "none"

\* PlotWidget.__init__: array-id tracking, no array-id field selected
InitIds ==
    /\ current_arrayid = "None"
    /\ lastArrayId = NoId
    /\ lostArrays = 0
    /\ last_test_array = [w \in Waveforms |-> NoId]

\* ------------------------------------------------------------- draw_data
\* the part of the state draw_data reads and writes, as a record
Engine ==
    [data |-> data, is_triggered_ |-> is_triggered_,
     trigger_data_done |-> trigger_data_done, data_behind |-> data_behind,
     trigger_index |-> trigger_index,
     display_start_index |-> display_start_index,
     missed_triggers |-> missed_triggers,
     missed_adjust_buffer_size |-> missed_adjust_buffer_size,
     idx |-> NoIdx, emit |-> FALSE]

\* a search that does not tell a timestamp above the newest element apart
is_trigger_in_array_no_behind(time_array, ts) ==
    IF ts = NoTs THEN -3
    ELSE IF ts < time_array[1] THEN -1
    ELSE SearchSorted(time_array, ts)

\* Trigger.__is_trigger_in_array
is_trigger_in_array(time_array, ts) ==
    IF ts = NoTs THEN -3
    ELSE IF ts < time_array[1] THEN -1
    ELSE IF ts > time_array[Len(time_array)] THEN -2
    ELSE SearchSorted(time_array, ts)

\* the fields a window emission copies: buffers at least as long as the
\* time reference
emitted_fields(trig, size) == {k \in DOMAIN trig : Len(trig[k]) >= size}

\* a test that forgets the latch
is_triggered_any(s) == trigger_mode

\* Trigger.is_triggered
is_triggered(s) == trigger_mode /\ s.is_triggered_

\* a recommendation that measures the deficit from the newest element
missed_recommendation_newest(time_data, ts, ml) ==
    LET size == Len(time_data)
        datatimediff == time_data[size] - time_data[1]
        timediff == time_data[size] - ts
    IN  [num |-> size * timediff + ml * datatimediff, den |-> datatimediff]

\* the buffer size recommended after a missed trigger, as a fraction:
\* len(time_data) * timediff / datatimediff + max_length
missed_recommendation(time_data, ts, ml) ==
    LET size == Len(time_data)
        datatimediff == time_data[size] - time_data[1]
        timediff == time_data[1] - ts
    IN  [num |-> size * timediff + ml * datatimediff, den |-> datatimediff]

\* Trigger.draw_data on engine record s with trigger-local store trig,
\* buffer size ml and latched timestamp ts
draw_data(s, trig, ml, ts) ==
    IF ~is_triggered(s) THEN s
    ELSE IF DataTimeField \notin DOMAIN trig THEN
        [s EXCEPT
            !.data = [k \in (DOMAIN s.data) \cup (DOMAIN trig) |->
                        IF k \in DOMAIN trig THEN LastN(trig[k], ml)
                        ELSE s.data[k]],
            !.display_start_index = 0,
            !.emit = TRUE]
    ELSE
        LET samples_after_trig == Half(ml)
            time_data == trig[DataTimeField]
            size == Len(time_data)
            idx == is_trigger_in_array(time_data, ts)
        IN  IF idx >= 0 THEN
                IF size - idx >= samples_after_trig THEN
                    LET dsi == Max(idx - samples_after_trig, 0)
                        endindex == idx + samples_after_trig
                        ks == emitted_fields(trig, size)
                    IN  [s EXCEPT
                            !.missed_triggers = 0,
                            !.trigger_index = idx,
                            !.display_start_index = dsi,
                            !.data = [k \in (DOMAIN s.data) \cup ks |->
                                        IF k \in ks
                                        THEN Slice(trig[k], dsi, endindex)
                                        ELSE s.data[k]],
                            !.idx = idx, !.emit = TRUE]
                ELSE
                    [s EXCEPT !.missed_triggers = 0,
                              !.trigger_index = idx,
                              !.idx = idx]
            ELSE IF idx = -1 THEN
                IF size >= ml THEN
                    [s EXCEPT
                        !.missed_triggers = Min(@ + 1, MaxMissed),
                        !.missed_adjust_buffer_size =
                            missed_recommendation(time_data, ts, ml),
                        !.is_triggered_ = FALSE,
                        !.trigger_data_done = TRUE,
                        !.idx = idx]
                ELSE
                    [s EXCEPT !.is_triggered_ = FALSE,
                              !.trigger_data_done = TRUE,
                              !.missed_triggers = 0,
                              !.idx = idx]
            ELSE IF idx = -2 THEN
                [s EXCEPT !.data_behind = TRUE, !.idx = idx]
            ELSE
                \* idx = -3: formatting the warning subtracts from None
                [s EXCEPT !.idx = idx]

\* draw_data left through the exception of its last branch
raised(s) == s.idx = -3

\* the frame-ready emissions since the latest latch, after one more
emitted_again == IF emitted = "none" THEN "once" ELSE "more"

\* writes the engine record back to the variables
Commit(s) ==
    /\ data' = s.data
    /\ is_triggered_' = s.is_triggered_
    /\ trigger_data_done' = s.trigger_data_done
    /\ data_behind' = s.data_behind
    /\ trigger_index' = s.trigger_index
    /\ display_start_index' = s.display_start_index
    /\ missed_triggers' = s.missed_triggers
    /\ missed_adjust_buffer_size' = s.missed_adjust_buffer_size
    /\ pending' = IF s.emit THEN Min(pending + 1, MaxPending) ELSE pending

\* ---------------------------------------------------------- data_process
\* the batch as data_process sees it after the scalar-to-array conversion
batch_arrays(arrs, ids) ==
    [k \in (DOMAIN arrs) \cup (DOMAIN ids) |->
        IF k \in DOMAIN ids THEN << ids[k] >> ELSE arrs[k]]

\* truncates the stored array before it appends the batch
append_all_early_cut(d, a, ks, ml) ==
    [k \in (DOMAIN d) \cup ks |->
        IF k \in ks THEN LastN(Get(d, k), ml) \o a[k] ELSE d[k]]

\* np.append(d.get(k, []), v)[-ml:] for every key of ks
append_all(d, a, ks, ml) ==
    [k \in (DOMAIN d) \cup ks |->
        IF k \in ks THEN LastN(Get(d, k) \o a[k], ml) ELSE d[k]]

main_lost(ids) ==
    /\ current_arrayid \in DOMAIN ids
    /\ lastArrayId # NoId
    /\ ids[current_arrayid] - lastArrayId > 1

wave_hit(ids, w) == WaveId[w] \in DOMAIN ids /\ WaveId[w] # current_arrayid

\* a gap test that measures a waveform's id against the main last id
wave_lost_shared(ids, w) ==
    /\ wave_hit(ids, w)
    /\ lastArrayId # NoId
    /\ ids[WaveId[w]] - lastArrayId > 1

wave_lost(ids, w) ==
    /\ wave_hit(ids, w)
    /\ last_test_array[w] # NoId
    /\ ids[WaveId[w]] - last_test_array[w] > 1

lost_increment(ids) ==
    (IF main_lost(ids) THEN 1 ELSE 0)
        + Cardinality({w \in Waveforms : wave_lost(ids, w)})

\* data_process between wait() and its return, with max_length as the call
\* finds it
process(arrs, ids, ml) ==
    /\ LET a == batch_arrays(arrs, ids)
           ks == {k \in DOMAIN a : Len(a[k]) > 0}
           got_data == ks # {}
           to_trigger == ~sampling_mode /\ trigger_mode
           to_buffer == ~sampling_mode /\ ~trigger_mode
           trig1 == IF to_trigger
                    THEN append_all(trig_data, a, ks, ml)
                    ELSE trig_data
           data1 == IF to_buffer
                    THEN append_all(data, a, ks, ml)
                    ELSE data
           samp1 == IF sampling_mode
                    THEN [k \in (DOMAIN sample_data) \cup ks |->
                            IF k \in ks THEN a[k][Len(a[k])]
                            ELSE sample_data[k]]
                    ELSE sample_data
           s0 == [Engine EXCEPT
                    !.data = data1,
                    !.data_behind = IF to_trigger /\ got_data THEN FALSE
                                    ELSE @]
           s1 == IF got_data
                 THEN draw_data(s0, trig1, ml, trigger_timestamp)
                 ELSE s0
       IN  /\ Commit(s1)
           /\ trig_data' = trig1
           /\ sample_data' = samp1
           /\ lostArrays' = lostArrays + lost_increment(ids)
           /\ lastArrayId' = IF current_arrayid \in DOMAIN ids
                             THEN ids[current_arrayid] ELSE lastArrayId
           /\ last_test_array' =
                [w \in Waveforms |-> IF wave_hit(ids, w) THEN ids[WaveId[w]]
                                     ELSE last_test_array[w]]
           /\ mutex_held' = raised(s1)
           /\ first_data' = IF raised(s1) THEN first_data ELSE FALSE
           /\ nextSeq' = [k \in ArrayFields |->
                            IF k \in DOMAIN arrs THEN nextSeq[k] + Len(arrs[k])
                            ELSE nextSeq[k]]
           /\ emitted' = IF s1.emit THEN emitted_again ELSE emitted
           /\ ev' = [op |-> "data", idx |-> s1.idx, emit |-> s1.emit,
                     latched |-> FALSE, first |-> FALSE]
    /\ UNCHANGED <<cfgvars, trigger_count, trigger_timestamp,
                   trigger_value, delivered, consumed>>

\* data_process of a batch that leaves the buffer size alone
data_process(arrs, ids) ==
    /\ process(arrs, ids, max_length)
    /\ UNCHANGED <<max_length, acqvars, confvars, pollvars>>

\* monitor_callback and data_process as one step: the batch is dropped
\* while no buffer size is set, and the mutex must be free
DataProcess(arrs, ids) ==
    /\ max_length # 0
    /\ ~mutex_held
    /\ data_process(arrs, ids)
    /\ UNCHANGED <<thrvars, chanvars, ctlvars>>

\* a batch of the main source: its next n samples of each field of ks
ArrayBatch(n, ks) == [k \in ks |-> Produce(k, n)]

\* the main source delivers its time field
Ingest ==
    \E n \in 0..MaxBatch :
        /\ nextSeq[TimeField] + n <= MaxTimed
        /\ DataProcess(ArrayBatch(n, {TimeField}), << >>)

\* the main source delivers any of its array fields
IngestFields ==
    \E n \in 0..MaxBatch, ks \in (SUBSET ArrayFields) \ {{}} :
        /\ \A k \in ks : nextSeq[k] + n <= MaxTotal
        /\ DataProcess(ArrayBatch(n, ks), << >>)

\* the main source delivers its time field, with or without the others
IngestRecord ==
    \E n \in 0..MaxBatch, ks \in {{TimeField}, ArrayFields} :
        /\ \A k \in ks : nextSeq[k] + n <= MaxTotal
        /\ DataProcess(ArrayBatch(n, ks), << >>)

\* a batch carrying the values of some of the array-id fields
IngestId ==
    \E ks \in (SUBSET IdFields) \ {{}} :
        \E ids \in [ks -> 0..MaxId] :
            /\ lostArrays + lost_increment(ids) <= MaxLost
            /\ DataProcess(<< >>, ids)

\* --------------------------------------------------- Trigger.data_callback
is_triggered_func(type, val) ==
    CASE type = "onchange" -> TRUE
      [] type = "gtthreshold" -> val > trigger_level
      [] type = "ltthreshold" -> val < trigger_level
      [] OTHER -> FALSE

\* trigger timestamps: before every sample, on a sample, between samples
TsValues == {1, 4, 5}

TriggerEvent(latched, s) ==
    [op |-> "trigger", idx |-> s.idx, emit |-> s.emit, latched |-> latched,
     first |-> ~delivered]

\* a callback that does not test whether the latest trigger is resolved
data_callback_relatching(val, ts) ==
    /\ trigger_is_monitor
    /\ delivered' = TRUE
    /\ trigger_count' = Min(trigger_count + 1, FirstCount + 1)
    /\ IF trigger_count + 1 <= FirstCount
       THEN /\ ev' = TriggerEvent(FALSE, Engine)
            /\ UNCHANGED <<data, is_triggered_, trigger_data_done,
                           data_behind, trigger_timestamp, trigger_value,
                           trigger_index, display_start_index,
                           missed_triggers, missed_adjust_buffer_size,
                           pending, emitted, consumed>>
       ELSE /\ trigger_value' = val
            /\ IF \/ ~plotting_started
                  \/ data_behind
                  \/ ~is_triggered_func(trigger_type, val)
               THEN /\ ev' = TriggerEvent(FALSE, Engine)
                    /\ UNCHANGED <<data, is_triggered_, trigger_data_done,
                                   data_behind, trigger_timestamp,
                                   trigger_index, display_start_index,
                                   missed_triggers,
                                   missed_adjust_buffer_size,
                                   pending, emitted, consumed>>
               ELSE LET s0 == [Engine EXCEPT !.is_triggered_ = TRUE,
                                             !.trigger_data_done = FALSE]
                        s1 == draw_data(s0, trig_data, max_length, ts)
                    IN  /\ Commit(s1)
                        /\ trigger_timestamp' = ts
                        /\ emitted' = IF s1.emit THEN "once" ELSE "none"
                        /\ consumed' = FALSE
                        /\ ev' = TriggerEvent(TRUE, s1)
    /\ UNCHANGED <<max_length, cfgvars, bufvars_but_data, idvars>>

\* Trigger.data_callback
data_callback(val, ts) ==
    /\ trigger_is_monitor
    /\ delivered' = TRUE
    /\ trigger_count' = Min(trigger_count + 1, FirstCount + 1)
    /\ IF trigger_count + 1 <= FirstCount
       THEN /\ ev' = TriggerEvent(FALSE, Engine)
            /\ UNCHANGED <<data, is_triggered_, trigger_data_done,
                           data_behind, trigger_timestamp, trigger_value,
                           trigger_index, display_start_index,
                           missed_triggers, missed_adjust_buffer_size,
                           pending, emitted, consumed>>
       ELSE /\ trigger_value' = val
            /\ IF \/ ~plotting_started
                  \/ ~trigger_data_done
                  \/ data_behind
                  \/ ~is_triggered_func(trigger_type, val)
               THEN /\ ev' = TriggerEvent(FALSE, Engine)
                    /\ UNCHANGED <<data, is_triggered_, trigger_data_done,
                                   data_behind, trigger_timestamp,
                                   trigger_index, display_start_index,
                                   missed_triggers,
                                   missed_adjust_buffer_size,
                                   pending, emitted, consumed>>
               ELSE LET s0 == [Engine EXCEPT !.is_triggered_ = TRUE,
                                             !.trigger_data_done = FALSE]
                        s1 == draw_data(s0, trig_data, max_length, ts)
                    IN  /\ Commit(s1)
                        /\ trigger_timestamp' = ts
                        /\ emitted' = IF s1.emit THEN "once" ELSE "none"
                        /\ consumed' = FALSE
                        /\ ev' = TriggerEvent(TRUE, s1)
    /\ UNCHANGED <<max_length, cfgvars, bufvars_but_data, idvars>>

\* a trigger value carrying a timestamp
TriggerCallback == \E ts \in TsValues : data_callback(1, ts)

\* a trigger value without the trigger time field
TriggerCallbackNoTime == data_callback(1, NoTs)

\* a trigger value on either side of the threshold
TriggerValue == \E val \in TriggerValues : data_callback(val, 4)

\* ------------------------------------------------------- update_drawing
\* Trigger.finish_drawing
finishes == trigger_mode /\ is_triggered_

\* the sampling-mode branch of update_drawing
sampled_data ==
    LET lens == {Len(data[k]) : k \in DOMAIN data} \cup {0}
        longest == CHOOSE n \in lens : \A m \in lens : m <= n
        max_samples == Min(longest + 1, max_length)
        one(k) == LastN(Get(data, k) \o << sample_data[k] >>, max_length)
        pad(d) == IF max_samples > Len(d)
                  THEN [i \in 1..(max_samples - Len(d)) |-> 0] \o d
                  ELSE d
    IN  [k \in (DOMAIN data) \cup (DOMAIN sample_data) |->
            IF k \in DOMAIN sample_data THEN pad(one(k)) ELSE data[k]]

\* the event that runs update_drawing: a queued frame-ready signal, or the
\* refresh timer of free-running plotting
source_ready(src) ==
    /\ src = "signal" => pending > 0
    /\ src = "timer" => plotting_started /\ ~trigger_mode

\* update_drawing returns before it takes the mutex
returns_early == first_data \/ ~plotting_started

\* what no path of update_drawing writes
drawfixed == <<max_length, cfgvars, sample_data, trig_data, first_data,
               nextSeq, data_behind, trigger_count,
               trigger_timestamp, trigger_value, trigger_index,
               display_start_index, missed_triggers,
               missed_adjust_buffer_size, idvars, delivered, emitted>>

\* update_drawing between wait() and signal()
drawing(src) ==
    /\ pending' = IF src = "signal" THEN pending - 1 ELSE pending
    /\ data' = IF sampling_mode THEN sampled_data ELSE data
    /\ is_triggered_' = IF finishes THEN FALSE ELSE is_triggered_
    /\ trigger_data_done' = IF finishes THEN TRUE ELSE trigger_data_done
    /\ consumed' = IF finishes THEN TRUE ELSE consumed
    /\ ev' = Event("draw")
    /\ UNCHANGED drawfixed

update_drawing(src) ==
    /\ source_ready(src)
    /\ IF returns_early
       THEN /\ pending' = IF src = "signal" THEN pending - 1 ELSE pending
            /\ ev' = Event("draw")
            /\ UNCHANGED <<data, is_triggered_, trigger_data_done, consumed,
                           drawfixed>>
       ELSE /\ ~mutex_held
            /\ drawing(src)
    /\ UNCHANGED <<mutex_held, thrvars, chanvars, ctlvars>>

UpdateDrawing == \E src \in {"signal", "timer"} : update_drawing(src)

\* ------------------------------------------------- ScopeControllerBase
\* start_plotting: stop_trigger, then the refresh timer (free running) or
\* start_trigger (a new subscription of Trigger.data_callback)
StartPlotting ==
    /\ trigger_is_monitor' = trigger_mode
    /\ delivered' = IF trigger_mode THEN FALSE ELSE delivered
    /\ plotting_started' = TRUE
    /\ ev' = Event("start")
    /\ UNCHANGED <<max_length, sampling_mode, trigger_mode, trigger_type,
                   trigger_level, current_arrayid, bufvars, trgvars, idvars,
                   pending, emitted, consumed>>

\* stop_plotting: notify_plotting_started(False), timer.stop, stop_trigger
StopPlotting ==
    /\ plotting_started' = FALSE
    /\ trigger_is_monitor' = FALSE
    /\ ev' = Event("stop")
    /\ UNCHANGED <<max_length, sampling_mode, trigger_mode, trigger_type,
                   trigger_level, current_arrayid, bufvars, trgvars, idvars,
                   envvars>>

\* a setter that does not look at plotting_started
set_trigger_mode_any_time(value) ==
    LET flag == value # "none"
    IN  /\ trigger_mode' = flag
        /\ trigger_type' = IF flag THEN value ELSE trigger_type
        /\ ev' = Event("mode")
        /\ UNCHANGED <<max_length, sampling_mode, trigger_level,
                       plotting_started, trigger_is_monitor, current_arrayid,
                       bufvars, trgvars, idvars, envvars>>

\* ScopeControllerBase.set_trigger_mode; a rejected request ends in
\* notify_warning
set_trigger_mode(value) ==
    LET flag == value # "none"
    IN  /\ IF flag # trigger_mode /\ plotting_started
           THEN /\ ev' = Event("warning")
                /\ UNCHANGED <<trigger_mode, trigger_type>>
           ELSE /\ trigger_mode' = flag
                /\ trigger_type' = IF flag THEN value ELSE trigger_type
                /\ ev' = Event("mode")
        /\ UNCHANGED <<max_length, sampling_mode, trigger_level,
                       plotting_started, trigger_is_monitor, current_arrayid,
                       bufvars, trgvars, idvars, envvars>>

SetTriggerMode == \E value \in TriggerModes : set_trigger_mode(value)

\* PlotWidget.update_buffer
update_buffer(value) ==
    /\ max_length' = value
    /\ ev' = Event("buffer")
    /\ UNCHANGED <<cfgvars, bufvars, trgvars, idvars, envvars>>

UpdateBuffer == \E value \in 0..MaxBuf : update_buffer(value)

\* a resize to a positive size
ResizeBuffer == \E value \in 1..MaxBuf : update_buffer(value)

\* the automatic buffer adjustment at the end of update_status
TriggerAutoScale == TRUE

recommended_size ==
    LET r == missed_adjust_buffer_size
    IN  (r.num + r.den - 1) \div r.den

UpdateStatus ==
    /\ TriggerAutoScale /\ trigger_mode
    /\ missed_triggers > 0
    /\ missed_adjust_buffer_size.den > 0
    /\ recommended_size <= MaxBuf
    /\ max_length' = recommended_size
    /\ ev' = Event("status")
    /\ UNCHANGED <<cfgvars, bufvars, trgvars, idvars, envvars>>

\* PlotWidget.enable_sampling_mode
enable_sampling_mode(val) ==
    /\ IF sampling_mode # val
       THEN sampling_mode' = val /\ data' = << >>
       ELSE UNCHANGED <<sampling_mode, data>>
    /\ ev' = Event("sampling")
    /\ UNCHANGED <<max_length, trigger_mode, trigger_type, trigger_level,
                   plotting_started, trigger_is_monitor, current_arrayid,
                   bufvars_but_data, trgvars, idvars, envvars>>

EnableSamplingMode == \E val \in BOOLEAN : enable_sampling_mode(val)

\* ------------------------------------------------- pvapy_plugins.Channel
\* everything of the plot
plotvars_but_ctl ==
    <<max_length, cfgvars, data, sample_data, trig_data, first_data,
      mutex_held, nextSeq, thrvars, trgvars, idvars, envvars, ev>>

\* everything but the DataSource and its channels
plotvars == <<plotvars_but_ctl, ctlvars>>

\* one call on a Channel object: the object, the status events delivered so
\* far (callback and state), and whether an exception left the call
Call(c) == [chan |-> c, sent |-> << >>, raised |-> FALSE]

Raise(r) == [r EXCEPT !.raised = TRUE]

set_state_always(r, state) ==
    [r EXCEPT !.chan.state = state,
              !.sent = IF r.chan.status_callback # None
                       THEN Append(@, [cb |-> r.chan.status_callback,
                                       state |-> state])
                       ELSE @]

\* Channel.set_state
set_state(r, state) ==
    IF state # r.chan.state THEN set_state_always(r, state) ELSE r

\* Channel.is_running
is_running(c) == c.state \in {"CONNECTED", "CONNECTING"}

notify_error_any_state(r) == set_state(r, "FAILED_TO_CONNECT")

\* Channel.notify_error
notify_error(r) ==
    IF is_running(r.chan) THEN set_state(r, "FAILED_TO_CONNECT") ELSE r

\* Channel.data_callback_wrapper
data_callback_wrapper(r) ==
    IF ~is_running(r.chan) THEN r ELSE set_state(r, "CONNECTED")

\* data_callback_wrapper hands the batch to the data callback of the
\* consumer when the channel is running as the wrapper is entered
handed_over(c, kind) ==
    is_running(IF kind = "poll" THEN set_state(Call(c), "CONNECTING").chan
               ELSE c)

\* PollStrategy._data_callback
poll_data_callback(r) == data_callback_wrapper(set_state(r, "CONNECTING"))

\* a callback that takes a lost connection for a clean stop
connection_callback_clean_stop(r, is_connected) ==
    IF is_connected THEN set_state(r, "CONNECTED")
    ELSE IF is_running(r.chan) THEN set_state(r, "DISCONNECTED")
    ELSE r

\* MonitorStrategy._connection_callback
connection_callback(r, is_connected) ==
    IF is_connected THEN set_state(r, "CONNECTED")
    ELSE IF is_running(r.chan) THEN notify_error(r)
    ELSE r

\* Channel.__init__: the constructor reports Disconnected.  `inactive`
\* marks a channel that was deactivated and neither reactivated nor started
\* since; `live` one that create_connection returned and nobody deleted.
NewChannel(name, provider, timer, cb) ==
    set_state(Call([name |-> name, provider |-> provider, state |-> None,
                    status_callback |-> cb, strategy |-> None,
                    running |-> {}, timer |-> timer, inactive |-> FALSE,
                    live |-> FALSE]),
              "DISCONNECTED")

select_strategy_or_monitor(c, rate) ==
    IF rate # 0 /\ c.timer THEN "poll" ELSE "monitor"

\* Channel.start: poll_strategy if rate else monitor_strategy; the poll
\* strategy exists only if the channel was given a timer
select_strategy(c, rate) ==
    IF rate # 0 THEN (IF c.timer THEN "poll" ELSE None) ELSE "monitor"

\* PollStrategy.start / MonitorStrategy.start; ok: channel.monitor did not
\* raise PvaException
strategy_start(r, ok) ==
    IF r.chan.strategy = "monitor" /\ ~ok THEN notify_error(r)
    ELSE [r EXCEPT !.chan.running = @ \cup {r.chan.strategy}]

\* Channel.start
start(r, rate, cb, ok) ==
    LET r1 == [r EXCEPT !.chan.strategy = select_strategy(r.chan, rate),
                        !.chan.inactive = FALSE]
        r2 == IF cb # None THEN [r1 EXCEPT !.chan.status_callback = cb]
              ELSE r1
    IN  IF r1.chan.strategy = None THEN Raise(r1)
        ELSE strategy_start(set_state(r2, "CONNECTING"), ok)

\* PollStrategy.stop / MonitorStrategy.stop; ok: stopMonitor did not raise
strategy_stop(r, ok) ==
    IF r.chan.strategy = None THEN r
    ELSE IF r.chan.strategy = "monitor" /\ ~ok THEN Raise(r)
    ELSE [r EXCEPT !.chan.running = @ \ {r.chan.strategy}]

\* Channel.stop
stop(r, ok) ==
    LET r1 == strategy_stop(set_state(r, "DISCONNECTING"), ok)
    IN  IF r1.raised THEN r1 ELSE set_state(r1, "DISCONNECTED")

\* Channel.deactivate
deactivate(r) ==
    set_state([r EXCEPT !.chan.status_callback = None,
                        !.chan.inactive = TRUE], "EMPTY")

\* Channel.reactivate
reactivate(r, new_status_callback) ==
    set_state([r EXCEPT !.chan.status_callback = new_status_callback,
                        !.chan.inactive = FALSE], "DISCONNECTED")

\* Channel.get; ok: the transport answered
Channel_get(r, ok) == IF ok THEN r ELSE Raise(notify_error(r))

\* DataSource.get / async_get: a channel without a status callback gets the
\* one of the DataSource
attach_status_callback(r) ==
    IF r.chan.status_callback = None
    THEN [r EXCEPT !.chan.status_callback = status_callback]
    ELSE r

\* the Channel objects in use: returned by create_connection, not deleted
Live == {c \in 1..Len(channels) : channels[c].live}

ChannelEvent(op, c, r) ==
    [NoChannelEvent EXCEPT !.op = op, !.ch = c, !.sent = r.sent,
                           !.raised = r.raised]

\* the call leaves channel c as r.chan, and its events were delivered
Apply(c, r, e) ==
    /\ channels' = [channels EXCEPT ![c] = r.chan]
    /\ last_status' = [last_status EXCEPT ![c] =
                          IF r.sent = << >> THEN @
                          ELSE r.sent[Len(r.sent)].state]
    /\ cev' = e

Start ==
    \E c \in Live, rate \in Rates, cb \in {None, status_callback},
       ok \in BOOLEAN :
        LET r == start(Call(channels[c]), rate, cb, ok)
        IN  /\ Apply(c, r, [ChannelEvent("start", c, r) EXCEPT
                                !.rate = rate, !.cb = cb])
            /\ UNCHANGED <<channel_cache, channel, status_callback, plotvars>>

Stop ==
    \E c \in Live, ok \in BOOLEAN :
        LET r == stop(Call(channels[c]), ok)
        IN  /\ Apply(c, r, ChannelEvent("stop", c, r))
            /\ UNCHANGED <<channel_cache, channel, status_callback, plotvars>>

\* a result of the strategy reaches its callback, possibly after the
\* strategy was stopped
Delivers(c, kind) == kind \in channels[c].running \/ channels[c].strategy = kind

DataArrives ==
    \E c \in Live, kind \in {"poll", "monitor"} :
        LET r == IF kind = "poll" THEN poll_data_callback(Call(channels[c]))
                 ELSE data_callback_wrapper(Call(channels[c]))
        IN  /\ Delivers(c, kind)
            /\ Apply(c, r, [ChannelEvent("data", c, r) EXCEPT
                                !.handed = handed_over(channels[c], kind)])
            /\ UNCHANGED <<channel_cache, channel, status_callback, plotvars>>

\* PollStrategy._err_callback
ErrorArrives ==
    \E c \in Live :
        LET r == notify_error(Call(channels[c]))
        IN  /\ Delivers(c, "poll")
            /\ Apply(c, r, ChannelEvent("error", c, r))
            /\ UNCHANGED <<channel_cache, channel, status_callback, plotvars>>

ConnectionCallback ==
    \E c \in Live, is_connected \in BOOLEAN :
        LET r == connection_callback(Call(channels[c]), is_connected)
        IN  /\ Delivers(c, "monitor")
            /\ Apply(c, r, ChannelEvent(IF is_connected THEN "connected"
                                        ELSE "disconnected", c, r))
            /\ UNCHANGED <<channel_cache, channel, status_callback, plotvars>>

Deactivate ==
    \E c \in Live :
        LET r == deactivate(Call(channels[c]))
        IN  /\ Apply(c, r, ChannelEvent("deactivate", c, r))
            /\ UNCHANGED <<channel_cache, channel, status_callback, plotvars>>

Reactivate ==
    \E c \in Live, cb \in Callbacks :
        LET r == reactivate(Call(channels[c]), cb)
        IN  /\ Apply(c, r, [ChannelEvent("reactivate", c, r) EXCEPT !.cb = cb])
            /\ UNCHANGED <<channel_cache, channel, status_callback, plotvars>>

ChannelGet ==
    \E c \in Live, ok \in BOOLEAN :
        LET r == Channel_get(Call(channels[c]), ok)
        IN  /\ Apply(c, r, ChannelEvent("get", c, r))
            /\ UNCHANGED <<channel_cache, channel, status_callback, plotvars>>

\* DataSource.get on the current channel
DataSourceGet ==
    \E ok \in BOOLEAN :
        LET r == Channel_get(attach_status_callback(Call(channels[channel])),
                             ok)
        IN  /\ channel # NoChannel
            /\ Apply(channel, r, ChannelEvent("get", channel, r))
            /\ UNCHANGED <<channel_cache, channel, status_callback, plotvars>>

\* DataSource.async_get on the current channel: the answer goes to the
\* caller's callbacks
DataSourceAsyncGet ==
    LET r == attach_status_callback(Call(channels[channel]))
    IN  /\ channel # NoChannel
        /\ Apply(channel, r, ChannelEvent("async_get", channel, r))
        /\ UNCHANGED <<channel_cache, channel, status_callback, plotvars>>

\* ------------------------------------------ pvapy_plugins.PollStrategy
\* a poll that reports a rejected asyncGet as a connection failure
poll_failing(r, accepted) == IF accepted THEN r ELSE notify_error(r)

\* PollStrategy.poll: asyncGet is issued, or raises PvaException because
\* earlier requests are outstanding; the exception is logged
poll(r, accepted) == r

\* the timer of the poll strategy ticks; the transport can reject the
\* request only while an earlier one is outstanding
Poll ==
    \E c \in Live, accepted \in BOOLEAN :
        LET r == poll(Call(channels[c]), accepted)
        IN  /\ "poll" \in channels[c].running
            /\ ~accepted => outstanding[c] > 0
            /\ accepted => outstanding[c] < MaxOutstanding
            /\ Apply(c, r, [ChannelEvent("poll", c, r) EXCEPT
                                !.err = ~accepted])
            /\ outstanding' = IF accepted
                              THEN [outstanding EXCEPT ![c] = @ + 1]
                              ELSE outstanding
            /\ UNCHANGED <<channel_cache, channel, status_callback,
                           max_length, cfgvars, data, sample_data, trig_data,
                           first_data, mutex_held, nextSeq, thrvars, trgvars,
                           lastArrayId, lostArrays, last_test_array, acqvars,
                           confvars, envvars, ev, ctlvars>>

\* an outstanding request is answered: PollStrategy._data_callback or
\* PollStrategy._err_callback
PollAnswered ==
    \E c \in Live, ok \in BOOLEAN :
        LET r == IF ok THEN poll_data_callback(Call(channels[c]))
                 ELSE notify_error(Call(channels[c]))
        IN  /\ outstanding[c] > 0
            /\ Apply(c, r, [ChannelEvent(IF ok THEN "data" ELSE "error", c, r)
                               EXCEPT !.handed =
                                   ok /\ handed_over(channels[c], "poll")])
            /\ outstanding' = [outstanding EXCEPT ![c] = @ - 1]
            /\ UNCHANGED <<channel_cache, channel, status_callback,
                           max_length, cfgvars, data, sample_data, trig_data,
                           first_data, mutex_held, nextSeq, thrvars, trgvars,
                           lastArrayId, lostArrays, last_test_array, acqvars,
                           confvars, envvars, ev, ctlvars>>

\* --------------------------------------------- pvapy_plugins.DataSource
cache_before_probe(name, idx, probe) ==
    [channel_cache EXCEPT ![name] = idx]

\* create_connection: the new channel is cached unless its probe failed
cache_new(name, idx, probe) ==
    IF probe = "failed" THEN channel_cache
    ELSE [channel_cache EXCEPT ![name] = idx]

\* DataSource.timer_factory of a DataSource built without one
timer_factory == FALSE

\* DataSource.create_connection; probe: "none" without check_connection,
\* else the outcome of chan.get().  A channel whose probe failed is
\* referenced by nobody and is not kept in `channels`.
create_connection(name, provider, probe, cb) ==
    LET hit == channel_cache[name]
    IN  IF hit # NoChannel /\ channels[hit].provider = provider
        THEN LET r == reactivate(Call(channels[hit]), cb)
             IN  /\ Apply(hit, r, [ChannelEvent("create", hit, r) EXCEPT
                                      !.ret = hit, !.name = name,
                                      !.provider = provider, !.cb = cb])
                 /\ UNCHANGED channel_cache
        ELSE LET idx == Len(channels) + 1
                 r0 == NewChannel(name, provider, timer_factory, cb)
                 r1 == IF probe = "failed" THEN notify_error(r0) ELSE r0
                 r == [r1 EXCEPT !.chan.live = probe # "failed"]
             IN  /\ idx <= MaxChan
                 /\ IF probe = "failed"
                    THEN UNCHANGED <<channels, last_status>>
                    ELSE /\ channels' = Append(channels, r.chan)
                         /\ last_status' =
                                Append(last_status,
                                       r.sent[Len(r.sent)].state)
                 /\ channel_cache' = cache_new(name, idx, probe)
                 /\ cev' = [ChannelEvent("create", NoChannel, r) EXCEPT
                               !.ret = IF probe = "failed" THEN NoChannel
                                       ELSE idx,
                               !.made = TRUE, !.probe = probe,
                               !.err = probe = "failed", !.name = name,
                               !.provider = provider, !.cb = cb]

CreateConnection ==
    \E name \in PvNames, provider \in Providers,
       probe \in {"none", "ok", "failed"}, cb \in Callbacks :
        /\ create_connection(name, provider, probe, cb)
        /\ UNCHANGED <<channel, status_callback, plotvars>>

\* Channel.delete with DataSource.delete_channel as deletion callback:
\* del channel_cache[channel.name] raises KeyError when the name is absent
delete(c, ok) ==
    LET r1 == stop(Call(channels[c]), ok)
        r2 == IF r1.raised THEN r1
              ELSE [deactivate(r1) EXCEPT !.chan.live = FALSE,
                                          !.chan.running = {}]
        name == channels[c].name
        r == IF ~r2.raised /\ channel_cache[name] = NoChannel
             THEN Raise(r2) ELSE r2
    IN  /\ Apply(c, r, ChannelEvent("delete", c, r))
        /\ channel_cache' = IF r2.raised THEN channel_cache
                            ELSE [channel_cache EXCEPT ![name] = NoChannel]

Delete ==
    \E c \in Live, ok \in BOOLEAN :
        /\ delete(c, ok)
        /\ UNCHANGED <<channel, status_callback, plotvars>>

\* ------------------------------------ ScopeController: connection check
\* connection_changed: 'Failed to connect' emits the flag False on
\* connection_timer_signal
failed_reported(sent) ==
    \E i \in 1..Len(sent) : /\ sent[i].cb = "connection_changed"
                            /\ sent[i].state = "FAILED_TO_CONNECT"

flags_dropped(sent) == flag_queue

flags_after(sent) ==
    IF failed_reported(sent) THEN Append(flag_queue, FALSE) ELSE flag_queue

\* ScopeControllerBase.start_plotting / stop_plotting as the plot sees them
plot_started(started) ==
    /\ plotting_started' = started
    /\ trigger_is_monitor' = (started /\ trigger_mode)
    /\ delivered' = IF started /\ trigger_mode THEN FALSE ELSE delivered
    /\ ev' = Event(IF started THEN "start" ELSE "stop")
    /\ UNCHANGED <<max_length, sampling_mode, trigger_mode, trigger_type,
                   trigger_level, current_arrayid, data, sample_data,
                   trig_data, first_data, mutex_held, nextSeq, thrvars,
                   trgvars, idvars, pending, emitted, consumed>>

\* ScopeController.stop_plotting on the channel: model.stop()
scope_stop(r, ok) == stop(r, ok)

\* ScopeController.start_plotting on the channel: model.stop(), then
\* model.start(monitor_callback) with the status callback of the DataSource
\* and no frame rate
scope_start(r, stop_ok, start_ok) ==
    LET r1 == stop(r, stop_ok)
    IN  IF r1.raised THEN r1 ELSE start(r1, 0, status_callback, start_ok)

\* the channel after a handler of the controller, with its status events
Handled(r, op) ==
    /\ Apply(channel, r, ChannelEvent(op, channel, r))
    /\ Len(SelectSeq(flags_after(r.sent), LAMBDA f : ~f)) <= MaxFlags
    /\ UNCHANGED <<channel_cache, channel, status_callback>>

\* the user starts plotting
UserStart ==
    \E stop_ok \in BOOLEAN, start_ok \in BOOLEAN :
        LET r == scope_start(Call(channels[channel]), stop_ok, start_ok)
        IN  /\ Handled(r, "start")
            /\ flag_queue' = flags_after(r.sent)
            /\ IF r.raised
               THEN UNCHANGED <<plotting_started, trigger_is_monitor,
                                delivered, ev, max_length, sampling_mode,
                                trigger_mode, trigger_type, trigger_level,
                                current_arrayid, data, sample_data,
                                trig_data, first_data, mutex_held, nextSeq,
                                thrvars, trgvars, idvars, pending, emitted,
                                consumed>>
               ELSE plot_started(TRUE)
            /\ sev' = [NoHandler EXCEPT !.op = "start", !.raised = r.raised]
            /\ UNCHANGED <<connection_timer, probes>>

\* the user stops plotting
UserStop ==
    \E ok \in BOOLEAN :
        LET r == scope_stop(Call(channels[channel]), ok)
        IN  /\ Handled(r, "stop")
            /\ flag_queue' = flags_after(r.sent)
            /\ plot_started(FALSE)
            /\ sev' = [NoHandler EXCEPT !.op = "stop", !.raised = r.raised]
            /\ UNCHANGED <<connection_timer, probes>>

\* the monitor of the current channel delivers data, loses the connection
\* or gets it back
ChannelReports ==
    \E what \in {"data", "connected", "disconnected"} :
        LET r0 == Call(channels[channel])
            r == IF what = "data" THEN data_callback_wrapper(r0)
                 ELSE connection_callback(r0, what = "connected")
        IN  /\ Delivers(channel, "monitor")
            /\ Handled(r, what)
            /\ flag_queue' = flags_after(r.sent)
            /\ sev' = [NoHandler EXCEPT !.op = what]
            /\ UNCHANGED <<connection_timer, probes, plotvars_but_ctl>>

\* connection_timer fires: __check_connection sends an asynchronous get
check_connection ==
    /\ connection_timer
    /\ probes < MaxProbes
    /\ probes' = probes + 1
    /\ LET r == attach_status_callback(Call(channels[channel]))
       IN  Handled(r, "async_get")
    /\ sev' = [NoHandler EXCEPT !.op = "probe"]
    /\ UNCHANGED <<connection_timer, flag_queue, plotvars_but_ctl>>

\* the probe is answered: success_callback emits the flag True
ProbeSucceeds ==
    /\ probes > 0
    /\ Len(SelectSeq(flag_queue, LAMBDA f : f)) < MaxProbes
    /\ probes' = probes - 1
    /\ flag_queue' = Append(flag_queue, TRUE)
    /\ sev' = [NoHandler EXCEPT !.op = "answer"]
    /\ UNCHANGED <<connection_timer, chanvars, plotvars_but_ctl>>

\* the probe fails: the error callback of async_get does nothing
ProbeFails ==
    /\ probes > 0
    /\ probes' = probes - 1
    /\ sev' = [NoHandler EXCEPT !.op = "no answer"]
    /\ UNCHANGED <<connection_timer, flag_queue, chanvars, plotvars_but_ctl>>

\* update_fdr: model.get() on the current channel; a PvaException is
\* reported as a warning and the field description stays as it was
update_fdr(r, ok) ==
    LET r1 == Channel_get(attach_status_callback(r), ok)
    IN  [r1 EXCEPT !.raised = FALSE]

\* __failed_connection_callback(flag) for the oldest queued flag
failed_connection_callback ==
    /\ flag_queue # << >>
    /\ LET flag == Head(flag_queue)
           restart == plotting_started
       IN  IF ~flag
           THEN /\ connection_timer' = TRUE
                /\ flag_queue' = Tail(flag_queue)
                /\ sev' = [NoHandler EXCEPT !.op = "flag"]
                /\ UNCHANGED <<probes, chanvars, plotvars_but_ctl>>
           ELSE \E stop_ok \in BOOLEAN, get_ok \in BOOLEAN,
                   start_ok \in BOOLEAN :
                  LET r1 == scope_stop(Call(channels[channel]), stop_ok)
                      r2 == IF r1.raised THEN r1 ELSE update_fdr(r1, get_ok)
                      r3 == IF ~r2.raised /\ restart
                            THEN scope_start(r2, stop_ok, start_ok)
                            ELSE r2
                      queue == [i \in 1..(Len(flag_queue) - 1) |->
                                   flag_queue[i + 1]]
                  IN  /\ connection_timer' = FALSE
                      /\ Apply(channel, r3, ChannelEvent("flag", channel, r3))
                      /\ UNCHANGED <<channel_cache, channel, status_callback>>
                      /\ flag_queue' = IF failed_reported(r3.sent)
                                       THEN Append(queue, FALSE) ELSE queue
                      /\ plot_started(restart /\ ~r3.raised)
                      /\ sev' = [op |-> "flag", flag |-> TRUE,
                                 restart |-> restart,
                                 refreshed |-> ~r1.raised /\ get_ok,
                                 raised |-> r3.raised]
                      /\ UNCHANGED probes

\* ------------------------------------------------ the mutex, thread by thread
\* everything of the plot but the mutex and the latest step
plotfixed == <<max_length, cfgvars, data, sample_data, trig_data, first_data,
               nextSeq, trgvars, idvars, envvars, chanvars, ctlvars>>

\* wait(): the caller asks for the mutex
wait(t) ==
    /\ pc[t] = "idle"
    /\ pc' = [pc EXCEPT ![t] = "waiting"]
    /\ ev' = Event("wait")
    /\ UNCHANGED <<plotfixed, mutex_held, holder>>

\* QMutex.lock() returns: the caller is between wait() and signal()
lock(t) ==
    /\ pc[t] = "waiting"
    /\ ~mutex_held
    /\ mutex_held' = TRUE
    /\ holder' = t
    /\ pc' = [pc EXCEPT ![t] = "in"]
    /\ ev' = Event("lock")
    /\ UNCHANGED plotfixed

Lock == \E t \in Threads : lock(t)

\* the monitor thread of the data channel enters data_process
IngestWait ==
    /\ max_length # 0
    /\ wait("ingest")

\* data_process runs from wait() to signal() (or to the exception that
\* skips signal())
IngestDone ==
    /\ pc["ingest"] = "in"
    /\ \E n \in 0..MaxBatch :
        /\ nextSeq[TimeField] + n <= MaxTimed
        /\ data_process(ArrayBatch(n, {TimeField}), << >>)
    /\ pc' = [pc EXCEPT !["ingest"] = "idle"]
    /\ holder' = IF mutex_held' THEN holder ELSE "none"
    /\ UNCHANGED <<chanvars, ctlvars>>

\* the GUI thread runs update_drawing for a queued frame-ready signal and
\* reaches wait()
RenderWait ==
    /\ source_ready("signal")
    /\ ~returns_early
    /\ wait("render")

\* update_drawing runs from wait() to signal()
RenderDone ==
    /\ pc["render"] = "in"
    /\ drawing("signal")
    /\ mutex_held' = FALSE
    /\ holder' = "none"
    /\ pc' = [pc EXCEPT !["render"] = "idle"]
    /\ UNCHANGED <<chanvars, ctlvars>>

\* update_drawing returns before wait()
RenderSkip ==
    /\ pc["render"] = "idle"
    /\ returns_early
    /\ update_drawing("signal")

\* ---------------------------------------- ScopeController: buffer size
\* the part of the state the buffer-size handlers read and write
Acquisition ==
    [max_length |-> max_length, auto_buffer_size |-> auto_buffer_size,
     object_size |-> object_size, buffer_unit |-> buffer_unit,
     buffer_value |-> buffer_value]

\* math.ceil(a / b) for a >= 0 and b > 0
Ceil(a, b) == (a + b - 1) \div b

\* ScopeController.__calc_buffer_size
calc_buffer_size(st) ==
    IF st.buffer_unit = "Objects" /\ st.object_size # 0
    THEN [st EXCEPT !.max_length = st.buffer_value * st.object_size]
    ELSE st

\* ScopeController.update_buffer_samples
update_buffer_samples(st, size) ==
    IF st.buffer_unit = "Samples"
    THEN [st EXCEPT !.max_length = size, !.buffer_value = size]
    ELSE IF st.object_size # 0
    THEN calc_buffer_size([st EXCEPT
                              !.buffer_value = Ceil(size, st.object_size)])
    ELSE [st EXCEPT !.max_length = size]

\* ScopeController.set_object_size
set_object_size(st, size) ==
    IF size = st.object_size THEN st
    ELSE calc_buffer_size([st EXCEPT !.object_size = size])

\* ScopeController.set_buffer_unit
set_buffer_unit(st, name) ==
    IF st.buffer_unit = name THEN st
    ELSE LET s1 == [st EXCEPT !.buffer_unit = name]
         IN  IF s1.max_length # 0
             THEN update_buffer_samples(s1, s1.max_length)
             ELSE IF name = "Objects"
             THEN calc_buffer_size(IF s1.buffer_value = 0
                                   THEN [s1 EXCEPT !.buffer_value = 1]
                                   ELSE s1)
             ELSE s1

\* parameter_change of the 'Buffer (unit)' parameter
buffer_changed(st, value) ==
    LET s1 == calc_buffer_size([st EXCEPT !.buffer_value = value,
                                          !.auto_buffer_size = FALSE])
    IN  IF s1.buffer_unit = "Samples" THEN [s1 EXCEPT !.max_length = value]
        ELSE s1

\* the first part of monitor_callback: the object size and, while the
\* buffer follows it, the buffer size
object_received(st, objlen) ==
    IF objlen = 0 THEN st
    ELSE LET s1 == set_object_size(st, objlen)
         IN  IF s1.auto_buffer_size
             THEN update_buffer_samples(s1, s1.object_size)
             ELSE s1

CommitAcquisition(st) ==
    /\ max_length' = st.max_length
    /\ auto_buffer_size' = st.auto_buffer_size
    /\ object_size' = st.object_size
    /\ buffer_unit' = st.buffer_unit
    /\ buffer_value' = st.buffer_value

\* what the latest handler of the controller was and what it was given
Handler(op, arg) == [op |-> op, arg |-> arg]

\* the greatest of a set of lengths, 0 for none
Longest(lens) == CHOOSE n \in lens \cup {0} : \A m \in lens \cup {0} : m <= n

\* ScopeController.monitor_callback: arrs are the array fields of the
\* object, strs its string fields (as characters); len() is defined for
\* both, and data_process stores a string as a one-element array
monitor_callback(arrs, strs) ==
    LET objlen == Longest({Len(arrs[k]) : k \in DOMAIN arrs}
                            \cup {Len(strs[k]) : k \in DOMAIN strs})
        st == object_received(Acquisition, objlen)
    IN  /\ CommitAcquisition(st)
        /\ UNCHANGED <<confvars, pollvars>>
        /\ sev' = Handler("monitor",
                          Longest({Len(arrs[k]) : k \in DOMAIN arrs}))
        /\ IF st.max_length = 0
           THEN /\ ev' = Event("dropped")
                /\ UNCHANGED <<cfgvars, bufvars, trgvars, lastArrayId,
                               lostArrays, last_test_array, envvars>>
           ELSE /\ ~mutex_held
                /\ process(arrs, strs, st.max_length)
                /\ UNCHANGED <<thrvars, chanvars, connection_timer,
                               flag_queue, probes>>

\* the source delivers an object with at least one array element: its
\* arrays may differ in length, and it
\* may carry an alarm message
MonitorCallback ==
    \E msg \in SUBSET {AlarmMessage}, n \in [ArrayFields -> 0..MaxBatch] :
        /\ \A k \in ArrayFields : nextSeq[k] + n[k] <= MaxTimed
        /\ \E k \in ArrayFields : n[k] > 0
        /\ monitor_callback([k \in ArrayFields |-> Produce(k, n[k])],
                            [k \in msg |-> Chars[k]])

\* a handler that changes the buffer settings only
acquisition_changed(st, op, arg) ==
    /\ CommitAcquisition(st)
    /\ sev' = Handler(op, arg)
    /\ ev' = Event(op)
    /\ UNCHANGED <<cfgvars, data, sample_data, trig_data, first_data,
                   mutex_held, nextSeq, thrvars, chanvars, connection_timer,
                   flag_queue, probes, trgvars, lastArrayId, lostArrays,
                   last_test_array, confvars, pollvars, envvars>>

\* the user selects the buffer unit
SetBufferUnit ==
    \E name \in {"Samples", "Objects"} :
        acquisition_changed(set_buffer_unit(Acquisition, name), "unit", name)

\* the user enters a buffer size
BufferChanged ==
    \E value \in 1..MaxBuf :
        acquisition_changed(buffer_changed(Acquisition, value), "buffer",
                            value)

\* ------------------------------------------------------------ Configure
DEFAULT_MINIMUM_CHANNELS_NUMBER == 4
DEFAULT_MAXIMUM_CHANNELS_NUMBER == 10

\* the channels a short CHANNELS section names (chan0, chan2), the
\* parameters of a channel, and the text of each option
ConfiguredChannels == {0, 2}
ChannelParams == {"field", "dcoffset"}
Option(ch, param) ==
    [ch |-> ch, param |-> param,
     v |-> CASE param = "field" /\ ch = 0 -> "field1"
             [] param = "field" /\ ch # 0 -> "field3"
             [] param = "dcoffset" /\ ch = 0 -> "5.0"
             [] OTHER -> "7"]
\* float() of the option texts above
float == [t \in {"5.0", "7"} |-> IF t = "5.0" THEN 5 ELSE 7]

\* CHANNELS sections: the chan<n>.<param> options in file order, no option
\* twice (ConfigParser rejects a duplicate); and one section that names
\* one channel more than the maximum
Options == {Option(ch, param) : ch \in ConfiguredChannels, param \in ChannelParams}
ShortSections ==
    {sec \in UNION {[1..n -> Options] : n \in 0..MaxEntries} :
        \A i, j \in DOMAIN sec : i # j => sec[i] # sec[j]}
LongSection ==
    [i \in 1..(DEFAULT_MAXIMUM_CHANNELS_NUMBER + 1) |-> Option(i - 1, "field")]
Sections == ShortSections \cup {LongSection}
Configurations ==
    [count : {NoCount} \cup 0..MaxCount, section : Sections]

\* get_channel_config with the channels in the order of their numbers
get_channel_config_sorted(section) ==
    LET chans == {section[j].ch : j \in DOMAIN section}
        nth(n) == CHOOSE ch \in chans : Cardinality({c \in chans : c <= ch}) = n
        lookup(ch) ==
            [param \in {section[j].param : j \in {j \in DOMAIN section : section[j].ch = ch}} |->
                section[CHOOSE j \in DOMAIN section :
                            section[j].ch = ch /\ section[j].param = param].v]
    IN  [n \in 1..Cardinality(chans) |-> lookup(nth(n))]

\* Configuration.get_channel_config: one dictionary per channel, in the
\* order in which the channels first appear in the section
get_channel_config(section) ==
    LET firsts == {i \in DOMAIN section :
                     \A j \in 1..(i - 1) : section[j].ch # section[i].ch}
        nth(n) == CHOOSE i \in firsts : Cardinality({j \in firsts : j <= i}) = n
        lookup(ch) ==
            [param \in {section[j].param : j \in {j \in DOMAIN section : section[j].ch = ch}} |->
                section[CHOOSE j \in DOMAIN section :
                            section[j].ch = ch /\ section[j].param = param].v]
    IN  [n \in 1..Cardinality(firsts) |-> lookup(section[nth(n)].ch)]

\* Configure.new_channel: the colour is its index in default_color
new_channel(number, color, field, dc_offset) ==
    [name |-> number, color |-> color, field |-> field, dc_offset |-> dc_offset]

\* Configure.assemble_channel
assemble_channel(params) ==
    LET counts0 == IF params.count = NoCount
                   THEN DEFAULT_MINIMUM_CHANNELS_NUMBER ELSE params.count
        chan_cfgs == get_channel_config(params.section)
        counts == Min(Max(counts0, Len(chan_cfgs)), DEFAULT_MAXIMUM_CHANNELS_NUMBER)
        default_cfg == [field |-> "None", dcoffset |-> 0]
        \* chcfg is chan_cfgs[i] or default_cfg; float() leaves the default
        \* offset, a number, as it is
        configured(i) == Len(chan_cfgs) > i
        field(i) == IF configured(i) /\ "field" \in DOMAIN chan_cfgs[i + 1]
                    THEN chan_cfgs[i + 1].field ELSE default_cfg.field
        dcoffset(i) == IF configured(i) /\ "dcoffset" \in DOMAIN chan_cfgs[i + 1]
                       THEN float[chan_cfgs[i + 1].dcoffset]
                       ELSE default_cfg.dcoffset
    IN  [n \in 1..counts |-> new_channel(n, n, field(n - 1), dcoffset(n - 1))]

\* Configure.parse, for what it makes of the channels
parse(params) ==
    /\ cfg' = params
    /\ channel_params' = assemble_channel(params)
    /\ ev' = Event("parse")
    /\ UNCHANGED <<max_length, cfgvars, bufvars, trgvars, lastArrayId,
                   lostArrays, last_test_array, acqvars, pollvars, envvars>>

\* the application starts with some configuration file
Parse ==
    \E params \in Configurations : parse(params)

\* ------------------------------------------------------------- Waveform
\* pv_name + SEPARATOR + key, as the key of the buffers and as characters
WaveKey == [pv \in WaveformNames |->
              CASE pv = "A" -> "A.value"
                [] pv = "AB" -> "AB.value"
                [] pv = "B" -> "B.value"]

KeyChars(k) ==
    IF \E pv \in WaveformNames : WaveKey[pv] = k
    THEN LET pv == CHOOSE p \in WaveformNames : WaveKey[p] = k
         IN  Chars[pv] \o << SEPARATOR, WaveformField >>
    ELSE << k >>

\* pv_name in key
pv_name_in_key(pv_name, k) ==
    LET c == KeyChars(k)
        p == Chars[pv_name]
    IN  \E i \in 1..(Len(c) - Len(p) + 1) : SubSeq(c, i, i + Len(p) - 1) = p

\* Waveform.monitor_callback: the fields of the PV under prefixed keys
WaveformData ==
    \E pv \in WaveformNames, n \in 1..MaxBatch :
        DataProcess([k \in {WaveKey[pv]} |-> [i \in 1..n |-> 1]], << >>)

\* PlotWidget.clear_waveform_data and Trigger.clear_waveform_data
clear_waveform_data(pv_name) ==
    /\ data' = [k \in {x \in DOMAIN data : ~pv_name_in_key(pv_name, x)} |->
                  data[k]]
    /\ trig_data' = [k \in {x \in DOMAIN trig_data :
                                ~pv_name_in_key(pv_name, x)} |-> trig_data[k]]
    /\ ev' = Event("clear")
    /\ UNCHANGED <<max_length, cfgvars, sample_data, first_data, mutex_held,
                   nextSeq, thrvars, chanvars, ctlvars, trgvars, idvars,
                   envvars>>

\* Waveform.stop of a row whose channel exists
WaveformStop == \E pv_name \in WaveformNames : clear_waveform_data(pv_name)

\* --------------------------------------------------------- specifications
\* Trigger engine: trigger mode on (on-change), plotting started, the
\* trigger channel subscribed and its initial value already delivered.
InitTrigger ==
    /\ InitBuffers
    /\ InitEngine
    /\ InitArmed
    /\ InitIds
    /\ max_length = MaxBuf
    /\ sampling_mode = FALSE
    /\ trigger_mode = TRUE
    /\ trigger_type = "onchange"
    /\ plotting_started = TRUE
    /\ trigger_is_monitor = TRUE
    /\ trigger_count = FirstCount
    /\ delivered = TRUE

NextTrigger ==
    \/ Ingest
    \/ TriggerCallback
    \/ UpdateDrawing
    \/ UpdateBuffer
    \/ UpdateStatus

SpecTrigger == InitTrigger /\ [][NextTrigger]_vars

\* Plotting control from construction: trigger mode and type changes,
\* start and stop of plotting, trigger values, rendering.
InitControl ==
    /\ InitBuffers
    /\ InitEngine
    /\ InitArmed
    /\ InitIds
    /\ max_length = 0
    /\ sampling_mode = FALSE
    /\ trigger_mode = FALSE
    /\ trigger_type = "none"
    /\ plotting_started = FALSE
    /\ trigger_is_monitor = FALSE
    /\ trigger_count = 0
    /\ delivered = FALSE

NextControl ==
    \/ TriggerValue
    \/ UpdateDrawing
    \/ StartPlotting
    \/ StopPlotting
    \/ SetTriggerMode

SpecControl == InitControl /\ [][NextControl]_vars

\* Buffers in the three ingestion modes, plotting started: free running,
\* sampling, and trigger mode with a trigger latched before any data came.
InitBuffersModes ==
    /\ InitBuffers
    /\ InitEngine
    /\ InitIds
    /\ max_length = MaxBuf
    /\ plotting_started = TRUE
    /\ \/ /\ InitArmed
          /\ sampling_mode \in BOOLEAN
          /\ trigger_mode = FALSE
          /\ trigger_type = "none"
          /\ trigger_is_monitor = FALSE
          /\ trigger_count = 0
          /\ delivered = FALSE
       \/ /\ sampling_mode = FALSE
          /\ trigger_mode = TRUE
          /\ trigger_type = "onchange"
          /\ trigger_is_monitor = TRUE
          /\ trigger_count = FirstCount + 1
          /\ delivered = TRUE
          /\ is_triggered_ = TRUE
          /\ trigger_data_done = FALSE
          /\ trigger_timestamp = 4
          /\ trigger_value = 1
          /\ pending = 1
          /\ emitted = "once"

NextBuffers ==
    \/ IngestRecord
    \/ UpdateDrawing
    \/ ResizeBuffer

SpecBuffers == InitBuffersModes /\ [][NextBuffers]_vars

\* Free running with a fixed buffer size.
InitFreeRun ==
    /\ InitBuffers
    /\ InitEngine
    /\ InitArmed
    /\ InitIds
    /\ max_length \in 1..MaxBuf
    /\ sampling_mode = FALSE
    /\ trigger_mode = FALSE
    /\ trigger_type = "none"
    /\ plotting_started = TRUE
    /\ trigger_is_monitor = FALSE
    /\ trigger_count = 0
    /\ delivered = FALSE

NextFreeRun == IngestFields

SpecFreeRun == InitFreeRun /\ [][NextFreeRun]_vars

\* Array-id tracking: free running, the main array-id field selected or not.
InitArrayIds ==
    /\ InitBuffers
    /\ InitEngine
    /\ InitArmed
    /\ current_arrayid \in {"None", MainId}
    /\ lastArrayId = NoId
    /\ lostArrays = 0
    /\ last_test_array = [w \in Waveforms |-> NoId]
    /\ max_length = 1
    /\ sampling_mode = FALSE
    /\ trigger_mode = FALSE
    /\ trigger_type = "none"
    /\ plotting_started = TRUE
    /\ trigger_is_monitor = FALSE
    /\ trigger_count = 0
    /\ delivered = FALSE

NextArrayIds == IngestId

SpecArrayIds == InitArrayIds /\ [][NextArrayIds]_vars

\* the data monitor thread, the GUI thread and the trigger monitor thread,
\* interleaved at wait() and signal()
InitThreads == InitTrigger

NextThreads ==
    \/ IngestWait
    \/ RenderWait
    \/ Lock
    \/ IngestDone
    \/ RenderDone
    \/ RenderSkip
    \/ TriggerCallback
    \/ TriggerCallbackNoTime

SpecThreads == InitThreads /\ [][NextThreads]_vars

\* a batch that carries samples
IngestSamples == IngestDone /\ nextSeq' # nextSeq

\* The threads under their schedulers: the source keeps delivering batches
\* with samples, a lock() on the free mutex returns, and the GUI event loop
\* runs update_drawing for every queued frame-ready signal.
SpecThreadsFair ==
    /\ SpecThreads
    /\ WF_vars(IngestWait)
    /\ SF_vars(IngestSamples)
    /\ \A t \in Threads : SF_vars(lock(t))
    /\ WF_vars(RenderWait)
    /\ WF_vars(RenderDone)
    /\ WF_vars(RenderSkip)

\* the plot of an application that is not plotting
InitIdlePlot ==
    /\ InitPlotWidget
    /\ InitEngine
    /\ InitArmed
    /\ InitIds
    /\ max_length = MaxBuf
    /\ sampling_mode = FALSE
    /\ trigger_mode = FALSE
    /\ trigger_type = "none"
    /\ plotting_started = FALSE
    /\ trigger_is_monitor = FALSE
    /\ trigger_count = 0
    /\ delivered = FALSE

\* one channel, as update_device got it from create_connection, of a
\* DataSource with or without a timer factory; the controller has set the
\* status callback of the DataSource
InitChannel ==
    /\ InitIdlePlot
    /\ \E timer \in BOOLEAN :
        LET r == NewChannel("a", "pva", timer, "cb1")
        IN  /\ channels = << [r.chan EXCEPT !.live = TRUE] >>
            /\ last_status = << r.sent[Len(r.sent)].state >>
    /\ channel_cache = [n \in PvNames |-> IF n = "a" THEN 1 ELSE NoChannel]
    /\ channel = 1
    /\ status_callback = "connection_changed"
    /\ cev = NoChannelEvent

NextChannel ==
    \/ Start
    \/ Stop
    \/ DataArrives
    \/ ErrorArrives
    \/ ConnectionCallback
    \/ Deactivate
    \/ Reactivate
    \/ ChannelGet
    \/ DataSourceGet
    \/ DataSourceAsyncGet

SpecChannel == InitChannel /\ [][NextChannel]_vars

\* the channel cache of a DataSource
InitSource ==
    /\ InitIdlePlot
    /\ InitDataSource

NextSource ==
    \/ CreateConnection
    \/ Deactivate
    \/ Delete

SpecSource == InitSource /\ [][NextSource]_vars

\* The plot of the scope application between its modes: the user starts and
\* stops plotting and turns the trigger on and off; the source delivers
\* only while its monitor is started.
InitModes ==
    /\ InitBuffers
    /\ InitEngine
    /\ InitArmed
    /\ InitIds
    /\ max_length = MaxBuf
    /\ sampling_mode = FALSE
    /\ trigger_mode = FALSE
    /\ trigger_type = "none"
    /\ plotting_started = FALSE
    /\ trigger_is_monitor = FALSE
    /\ trigger_count = 0
    /\ delivered = FALSE

\* start_plotting starts the monitor of the source, stop_plotting stops it
IngestStarted == plotting_started /\ Ingest

NextModes ==
    \/ IngestStarted
    \/ TriggerValue
    \/ UpdateDrawing
    \/ StartPlotting
    \/ StopPlotting
    \/ SetTriggerMode

SpecModes == InitModes /\ [][NextModes]_vars

\* Waveform rows of the scope: their PVs deliver into the plot, in free-run
\* or in trigger mode, and rows are stopped.
InitWaveforms ==
    /\ InitBuffers
    /\ InitEngine
    /\ InitArmed
    /\ InitIds
    /\ max_length = MaxBuf
    /\ sampling_mode = FALSE
    /\ plotting_started = TRUE
    /\ trigger_mode \in BOOLEAN
    /\ trigger_type = IF trigger_mode THEN "onchange" ELSE "none"
    /\ trigger_is_monitor = trigger_mode
    /\ trigger_count = 0
    /\ delivered = FALSE

NextWaveforms ==
    \/ WaveformData
    \/ WaveformStop

SpecWaveforms == InitWaveforms /\ [][NextWaveforms]_vars

\* The buffer size of a scope that plots in free-running mode: objects
\* arrive, the user changes the buffer unit and the buffer size.
\* Trigger mode with fields that arrive independently of the time
\* reference, so that their buffers differ in length from it.
InitWindows ==
    /\ InitTrigger

NextWindows ==
    \/ IngestFields
    \/ TriggerCallback
    \/ UpdateDrawing

SpecWindows == InitWindows /\ [][NextWindows]_vars

\* Array-id tracking across stop and start of the acquisition: free
\* running, the main array-id field selected, plotting not yet started.
InitRestart ==
    /\ InitBuffers
    /\ InitEngine
    /\ InitArmed
    /\ current_arrayid = MainId
    /\ lastArrayId = NoId
    /\ lostArrays = 0
    /\ last_test_array = [w \in Waveforms |-> NoId]
    /\ max_length = 1
    /\ sampling_mode = FALSE
    /\ trigger_mode = FALSE
    /\ trigger_type = "none"
    /\ plotting_started = FALSE
    /\ trigger_is_monitor = FALSE
    /\ trigger_count = 0
    /\ delivered = FALSE

\* the source delivers only while the acquisition is started
IngestIdStarted == plotting_started /\ IngestId

NextRestart ==
    \/ IngestIdStarted
    \/ StartPlotting
    \/ StopPlotting

SpecRestart == InitRestart /\ [][NextRestart]_vars

\* A channel built with a timer, started and stopped, polled by its timer.
InitPolling ==
    /\ InitIdlePlot
    /\ LET r == NewChannel("a", "pva", TRUE, "cb1")
       IN  /\ channels = << [r.chan EXCEPT !.live = TRUE] >>
           /\ last_status = << r.sent[Len(r.sent)].state >>
    /\ channel_cache = [n \in PvNames |-> IF n = "a" THEN 1 ELSE NoChannel]
    /\ channel = 1
    /\ status_callback = "connection_changed"
    /\ cev = NoChannelEvent

NextPolling ==
    \/ Start
    \/ Stop
    \/ Poll
    \/ PollAnswered

SpecPolling == InitPolling /\ [][NextPolling]_vars

\* The current channel of a DataSource is started, stopped, read and
\* deleted.
InitDelete ==
    /\ InitChannel

NextDelete ==
    \/ Start
    \/ Stop
    \/ Delete
    \/ DataSourceGet

SpecDelete == InitDelete /\ [][NextDelete]_vars

\* the application before its configuration is read
InitConfigure ==
    /\ InitIdlePlot
    /\ InitDataSource

NextConfigure ==
    \/ Parse

SpecConfigure == InitConfigure /\ [][NextConfigure]_vars

InitAcquisition ==
    /\ InitBuffers
    /\ InitEngine
    /\ InitArmed
    /\ InitIds
    /\ max_length = 0
    /\ sampling_mode = FALSE
    /\ trigger_mode = FALSE
    /\ trigger_type = "none"
    /\ plotting_started = TRUE
    /\ trigger_is_monitor = FALSE
    /\ trigger_count = 0
    /\ delivered = FALSE

NextAcquisition ==
    \/ MonitorCallback
    \/ SetBufferUnit
    \/ BufferChanged

SpecAcquisition == InitAcquisition /\ [][NextAcquisition]_vars

\* the controller of an application that has a PV and is not plotting:
\* the current channel came from update_device
InitSupervised ==
    /\ InitIdlePlot
    /\ LET r == NewChannel("a", "pva", timer_factory, "cb1")
       IN  /\ channels = << [r.chan EXCEPT !.live = TRUE] >>
           /\ last_status = << r.sent[Len(r.sent)].state >>
    /\ channel_cache = [n \in PvNames |-> IF n = "a" THEN 1 ELSE NoChannel]
    /\ channel = 1
    /\ status_callback = "connection_changed"
    /\ cev = NoChannelEvent

NextSupervised ==
    \/ UserStart
    \/ UserStop
    \/ ChannelReports
    \/ check_connection
    \/ ProbeSucceeds
    \/ ProbeFails
    \/ failed_connection_callback

SpecSupervised == InitSupervised /\ [][NextSupervised]_vars

\* the Qt event loop runs the timer and the queued flags; the probes of a
\* reachable PV keep being answered
SpecSupervisedFair ==
    /\ SpecSupervised
    /\ WF_vars(check_connection)
    /\ WF_vars(failed_connection_callback)
    /\ SF_vars(ProbeSucceeds)

\* ================================================================ claims

C10_FreeRunKeepsLatest ==
    \A k \in ArrayFields :
        LET total == nextSeq[k]
            keep == IF total < max_length THEN total ELSE max_length
        IN  /\ total > 0 => k \in DOMAIN data
            /\ k \in DOMAIN data =>
                  data[k] = [i \in 1..keep |-> Val(k, total - keep + i)]

\* more elements were delivered for a field than the buffer holds
C10_Witness ==
    /\ ev.op = "data"
    /\ \E k \in DOMAIN data :
          /\ nextSeq[k] >= max_length + 2
          /\ Len(data[k]) = max_length
          /\ data[k][1] = Val(k, nextSeq[k] - max_length + 1)

C3_WindowAfterRequiredSamples ==
    [][ ev'.idx >= 0 =>
          LET t == trig_data'[DataTimeField]
              size == Len(t)
              idx == ev'.idx
              required == max_length' \div 2
              first == IF idx > required THEN idx - required ELSE 0
              last == IF idx + required < size THEN idx + required ELSE size
          IN  /\ \A i \in 1..size : (i <= idx) <=> (t[i] < trigger_timestamp')
              /\ IF size - idx < required
                 THEN /\ ~ev'.emit
                      /\ data' = data
                      /\ pending' = pending
                      /\ is_triggered_'
                 ELSE /\ ev'.emit
                      /\ display_start_index' = first
                      /\ data'[DataTimeField] =
                            [i \in 1..(last - first) |-> t[first + i]]
                      /\ pending' >= 1 /\ pending' >= pending
                      /\ is_triggered_'
      ]_vars

\* a batch completed the samples a latched trigger was waiting for, and the
\* window around the trigger was emitted
C3_Witness ==
    /\ ev.op = "data"
    /\ ev.emit
    /\ ev.idx >= 1
    /\ max_length \div 2 = 2
    /\ Len(data[DataTimeField]) = 3

C5_FirstValueNeverLatches ==
    ~(ev.op = "trigger" /\ ev.first /\ ev.latched)

C7_MissedTrigger ==
    [][ /\ ev'.idx = -1 =>
              LET t == trig_data'[DataTimeField]
                  size == Len(t)
                  deficit == t[1] - trigger_timestamp'
                  span == t[size] - t[1]
              IN  /\ deficit > 0
                  /\ ~ev'.emit /\ pending' = pending
                  /\ ~is_triggered_' /\ trigger_data_done' /\ ~data_behind'
                  /\ IF size >= max_length'
                     THEN /\ missed_triggers' >= 1
                          /\ missed_triggers' >= missed_triggers
                          /\ missed_adjust_buffer_size'.den = span
                          /\ missed_adjust_buffer_size'.num
                                = size * deficit + max_length' * span
                     ELSE /\ missed_triggers' = 0
                          /\ missed_adjust_buffer_size'
                                = missed_adjust_buffer_size
        /\ (ev'.idx >= 0 \/ ev'.idx = -2) =>
              trig_data'[DataTimeField][1] <= trigger_timestamp'
      ]_vars

\* a trigger older than a full buffer was missed and a larger buffer is
\* recommended
C7_Witness ==
    /\ ev.idx = -1
    /\ missed_triggers >= 1
    /\ ~is_triggered_
    /\ Len(trig_data[DataTimeField]) >= max_length
    /\ missed_adjust_buffer_size.den > 0
    /\ missed_adjust_buffer_size.num
          > max_length * missed_adjust_buffer_size.den

\* C8 as stated: every arrival of a value of the designated array-id field
\* raises the lost-array count by (newId - lastId - 1) when that is positive.
C8_LostCountGrowsByGap ==
    [][ (/\ lastArrayId # NoId
         /\ lastArrayId' - lastArrayId > 1
         /\ last_test_array' = last_test_array)
            => lostArrays' = lostArrays + (lastArrayId' - lastArrayId - 1)
      ]_vars

C11_BuffersOnlyUnderMutex ==
    /\ [](\A t \in Threads : pc[t] = "in" => mutex_held /\ holder = t)
    /\ [][(ev'.op = "trigger" /\ ev'.latched)
            => \A t \in Threads : pc[t] # "in"]_vars

\* C12: the data thread never waits for the mutex while update_drawing
\* holds it.
C12_IngestNeverWaitsForRender ==
    ~(pc["ingest"] = "waiting" /\ pc["render"] = "in" /\ holder = "render")

\* C20: a stop_plotting followed by a start_plotting in trigger mode leaves
\* the trigger event state reset: not latched, trigger_data_done set,
\* data_behind clear and the fire count back at 0.
C20_RestartResetsTrigger ==
    [][(ev.op = "stop" /\ ev'.op = "start" /\ trigger_mode')
        => /\ ~is_triggered_'
           /\ trigger_data_done'
           /\ ~data_behind'
           /\ trigger_count' = 0]_vars

\* C13: an error reported to a channel (poll error callback, connection
\* lost, failed get) moves it to FAILED_TO_CONNECT when it is CONNECTING or
\* CONNECTED; in any other state the error changes no state and delivers
\* no status event.
C13_ErrorFailsOnlyRunningChannel ==
    [][(\/ cev'.op \in {"error", "disconnected"}
        \/ cev'.op = "get" /\ cev'.raised)
        => LET before == channels[cev'.ch]
               after == channels'[cev'.ch]
           IN  IF before.state \in {"CONNECTING", "CONNECTED"}
               THEN after.state = "FAILED_TO_CONNECT"
               ELSE after.state = before.state /\ cev'.sent = << >>]_vars

\* a poll error arrived for a stopped channel that has a status callback
C13_Witness ==
    /\ cev.op = "error"
    /\ cev.sent = << >>
    /\ channels[cev.ch].state = "DISCONNECTED"
    /\ channels[cev.ch].status_callback # None

\* C14: a channel delivers a status event exactly when its state changes:
\* a step that changes the state delivers an event, and no event carries
\* the state of the event delivered before it.
C14_EventExactlyOnChange ==
    [][cev'.ch # NoChannel
        => LET before == channels[cev'.ch]
               after == channels'[cev'.ch]
           IN  /\ after.state # before.state => cev'.sent # << >>
               /\ cev'.sent # << >>
                    => cev'.sent[1].state # last_status[cev'.ch]]_vars

\* C14 (amended): an event is delivered only on a change of state and to the
\* attached callback: each event carries a state other than the one the
\* channel had just before it, the last one carries the state the channel
\* is left in, and a change made with a callback attached is delivered.
C14_EventOnlyOnChange ==
    [][cev'.ch # NoChannel
        => LET before == channels[cev'.ch]
               after == channels'[cev'.ch]
               sent == cev'.sent
           IN  /\ sent # << >>
                    => /\ sent[1].state # before.state
                       /\ \A i \in 1..(Len(sent) - 1) :
                            sent[i + 1].state # sent[i].state
                       /\ sent[Len(sent)].state = after.state
                       /\ \A i \in 1..Len(sent) : sent[i].cb # None
               /\ (after.state # before.state
                   /\ after.status_callback # None) => sent # << >>]_vars

\* the connection callback reports connected to a channel that is already
\* CONNECTED and has a status callback: nothing is delivered
C14_Witness ==
    /\ cev.op = "connected"
    /\ cev.sent = << >>
    /\ channels[cev.ch].state = "CONNECTED"
    /\ channels[cev.ch].status_callback # None

\* C15: a stop that returns leaves the channel DISCONNECTED with its
\* strategy halted, and a stop that directly follows a stop of the same
\* channel changes nothing and delivers no status event.
C15_StopIdempotent ==
    [][(cev'.op = "stop" /\ ~cev'.raised)
        => LET before == channels[cev'.ch]
               after == channels'[cev'.ch]
           IN  /\ after.state = "DISCONNECTED"
               /\ after.strategy \notin after.running
               /\ (cev.op = "stop" /\ ~cev.raised /\ cev.ch = cev'.ch)
                    => after = before /\ cev'.sent = << >>]_vars

\* C18: start selects the poll strategy when a rate is given and the
\* monitor strategy otherwise, and starts it; with a rate but no timer
\* start raises, the state stays as it was, nothing is delivered and no
\* strategy is started.
C18_StartSelectsStrategy ==
    [][cev'.op = "start"
        => LET before == channels[cev'.ch]
               after == channels'[cev'.ch]
           IN  IF cev'.rate # 0 /\ ~before.timer
               THEN /\ cev'.raised
                    /\ after.state = before.state
                    /\ after.running = before.running
                    /\ cev'.sent = << >>
               ELSE /\ ~cev'.raised
                    /\ after.strategy = IF cev'.rate # 0 THEN "poll"
                                        ELSE "monitor"
                    /\ after.running \subseteq
                         before.running \cup {after.strategy}
                    /\ after.state \in {"CONNECTING", "FAILED_TO_CONNECT"}
                    /\ after.state = "CONNECTING"
                         => after.strategy \in after.running]_vars

\* start with a rate failed on a stopped channel that has no timer
C18_Witness ==
    /\ cev.op = "start"
    /\ cev.raised
    /\ cev.rate # 0
    /\ ~channels[cev.ch].timer
    /\ channels[cev.ch].state = "DISCONNECTED"
    /\ channels[cev.ch].running = {}

\* C19: deactivate leaves the channel EMPTY; between deactivate and
\* reactivate no data, error, get or stop delivers a status event of the
\* channel; reactivate attaches the new callback and leaves the channel
\* DISCONNECTED with no strategy started.
C19_SilentWhileDeactivated ==
    [][cev'.ch # NoChannel
        => LET before == channels[cev'.ch]
               after == channels'[cev'.ch]
           IN  /\ cev'.op = "deactivate"
                    => after.state = "EMPTY" /\ cev'.sent = << >>
               /\ (/\ before.inactive
                   /\ cev'.op \in {"data", "error", "get", "async_get",
                                   "stop"})
                    => cev'.sent = << >>
               /\ cev'.op = "reactivate"
                    => /\ after.state = "DISCONNECTED"
                       /\ after.status_callback = cev'.cb
                       /\ after.running = before.running
                       /\ after.strategy = before.strategy]_vars

\* C16: create_connection for a name and provider of a channel that was
\* returned before and not deleted returns that channel, DISCONNECTED and
\* with the new callback, and constructs and probes nothing.
C16_SamePairSameChannel ==
    [][cev'.op = "create"
        => LET known == {c \in 1..Len(channels) :
                            /\ channels[c].live
                            /\ channels[c].name = cev'.name
                            /\ channels[c].provider = cev'.provider}
           IN  known # {}
                 => /\ cev'.ret \in known
                    /\ ~cev'.made
                    /\ cev'.probe = "none"
                    /\ Len(channels') = Len(channels)
                    /\ channels'[cev'.ret].state = "DISCONNECTED"
                    /\ channels'[cev'.ret].status_callback = cev'.cb]_vars

\* C17: when the probe of a newly constructed channel fails,
\* create_connection calls error_callback, returns no channel and leaves
\* the cache and the channels in use as they were.
C17_FailedProbeNotCached ==
    [][(cev'.op = "create" /\ cev'.probe = "failed")
        => /\ cev'.err
           /\ cev'.ret = NoChannel
           /\ channel_cache' = channel_cache
           /\ channels' = channels]_vars

\* the probe failed for a name the cache holds with the other provider
C17_Witness ==
    /\ cev.op = "create"
    /\ cev.probe = "failed"
    /\ cev.err
    /\ channel_cache[cev.name] # NoChannel
    /\ channels[channel_cache[cev.name]].provider # cev.provider

C22_NoTimestampOnlyLogged ==
    [][ev'.idx = -3
        => /\ ~ev'.emit
           /\ data' = data
           /\ pending' = pending
           /\ ev'.op = "data" => ~mutex_held']_vars

\* C29: a data_process call that took the mutex has released it when it is
\* left, whatever the draw decision was.
C29_DataProcessReleasesMutex ==
    [][ev'.op = "data" => ~mutex_held' /\ holder' = "none"]_vars

\* C23: a buffer-size request with a non-positive size is rejected: the
\* request leaves max_length and every buffer as they were.
C23_NonPositiveSizeRejected ==
    [][(\E value \in {0} : update_buffer(value))
        => /\ max_length' = max_length
           /\ data' = data
           /\ trig_data' = trig_data]_vars

\* C25: the samples of a field are held by PlotWidget.data or by
\* Trigger.trig_data, never by both, and a switch of the trigger mode leaves
\* the previous owner without samples.
C25_SamplesHaveOneOwner ==
    /\ [](\A k \in (DOMAIN data) \cap (DOMAIN trig_data) :
            data[k] = << >> \/ trig_data[k] = << >>)
    /\ [][trigger_mode' # trigger_mode
            => IF trigger_mode'
               THEN \A k \in DOMAIN data' : data'[k] = << >>
               ELSE \A k \in DOMAIN trig_data' : trig_data'[k] = << >>]_vars

\* C24: clear_waveform_data(pv_name) removes from the trigger store and
\* from the display buffer exactly the keys of the source pv_name; every
\* other key stays, with its data.
C24_ClearsExactlyOneSource ==
    [][\A pv_name \in WaveformNames :
        clear_waveform_data(pv_name)
        => /\ DOMAIN data' = {k \in DOMAIN data : k # WaveKey[pv_name]}
           /\ DOMAIN trig_data' =
                {k \in DOMAIN trig_data : k # WaveKey[pv_name]}
           /\ \A k \in DOMAIN data' : data'[k] = data[k]
           /\ \A k \in DOMAIN trig_data' : trig_data'[k] = trig_data[k]]_vars

\* C28: once stop has returned, and until the next start, a poll response
\* or a monitor update that arrives leaves the channel Disconnected and is
\* not handed to the data callback of the consumer.
C28_NoDataAfterStop ==
    [][/\ cev'.op = "data"
       /\ channels[cev'.ch].state = "DISCONNECTED"
       /\ channels[cev'.ch].running = {}
       => /\ channels'[cev'.ch].state = "DISCONNECTED"
          /\ ~cev'.handed]_vars

\* C30: in trigger mode with plotting started, while the source goes on
\* delivering samples and the renderer consumes the frame-ready signals, an
\* engine that is latched or behind returns to Armed.
C30_LatchIsResolved ==
    (is_triggered_ \/ data_behind)
        ~> \/ ~is_triggered_ /\ trigger_data_done /\ ~data_behind
           \/ nextSeq[TimeField] = MaxTimed

\* C26: while the buffer follows the object size and the unit is Samples,
\* a received object with at least one array element sets max_length and
\* the buffer parameter to the length of its longest array; once an object
\* size is known, switching the unit from Samples to Objects shows
\* ceil(max_length / object_size) objects (1 for a buffer of one object)
\* and max_length becomes objects x object_size.
C26_BufferFollowsObjectSize ==
    /\ [][/\ sev'.op = "monitor"
           /\ sev'.arg > 0
           /\ auto_buffer_size
           /\ buffer_unit = "Samples"
           => /\ max_length' = sev'.arg
              /\ buffer_value' = sev'.arg
              /\ buffer_unit' = "Samples"]_vars
    /\ [][/\ sev'.op = "unit"
           /\ sev'.arg = "Objects"
           /\ buffer_unit = "Samples"
           /\ object_size # 0
           /\ max_length # 0
           => /\ buffer_unit' = "Objects"
              /\ buffer_value' * object_size >= max_length
              /\ (buffer_value' - 1) * object_size < max_length
              /\ max_length = object_size => buffer_value' = 1
              /\ max_length' = buffer_value' * object_size]_vars

\* C27: assemble_channel makes min(max(COUNT, number of channels defined),
\* 10) channels, COUNT being 4 when absent; the defined channels come first,
\* in the order in which the configuration first names them, each with its
\* own field and DC offset ('None' and 0 where it gives none); every
\* further channel has field 'None' and DC offset 0
C27_ChannelCount ==
    LET sec == cfg.section
        firsts == {i \in DOMAIN sec : \A j \in DOMAIN sec : j < i => sec[j].ch # sec[i].ch}
        defined == Cardinality(firsts)
        count == IF cfg.count = NoCount THEN 4 ELSE cfg.count
        larger == IF count > defined THEN count ELSE defined
        want == IF larger < 10 THEN larger ELSE 10
        pos(i) == Cardinality({j \in firsts : j <= i})
        given(i, param) == {j \in DOMAIN sec : sec[j].ch = sec[i].ch /\ sec[j].param = param}
    IN  ev.op = "parse"
        => /\ Len(channel_params) = want
           /\ \A i \in firsts : pos(i) <= want =>
                  /\ \A j \in given(i, "field") : channel_params[pos(i)].field = sec[j].v
                  /\ given(i, "field") = {} => channel_params[pos(i)].field = "None"
                  /\ \A j \in given(i, "dcoffset") :
                         channel_params[pos(i)].dc_offset = float[sec[j].v]
                  /\ given(i, "dcoffset") = {} => channel_params[pos(i)].dc_offset = 0
           /\ \A n \in (defined + 1)..want :
                  channel_params[n].field = "None" /\ channel_params[n].dc_offset = 0

\* COUNT absent, chan2 named before chan0: four channels, chan2's first
C27_Witness ==
    /\ ev.op = "parse"
    /\ cfg.count = NoCount
    /\ cfg.section = <<Option(2, "field"), Option(0, "field"), Option(2, "dcoffset")>>
    /\ Len(channel_params) = 4
    /\ channel_params[1].field = "field3"
    /\ channel_params[1].dc_offset = 7
    /\ channel_params[2].field = "field1"
    /\ channel_params[3].field = "None"

\* C31: at any time at most one of the polling and the monitoring strategy
\* of a channel is active, also when start is called again with another
\* rate and no stop in between
C31_OneStrategyActive ==
    \A c \in DOMAIN channels : Cardinality(channels[c].running) <= 1

\* C32: for each non-empty array field of a batch, data_process
\* in sampling mode keeps only the newest element as the field's sample;
\* otherwise in trigger mode appends the array to the trigger-local store
\* and leaves the field's ingestion buffer unchanged; otherwise appends it
\* to the ingestion buffer cut to max_length
C32_OneOfThree ==
    [][\A k \in ArrayFields : nextSeq'[k] > nextSeq[k] =>
        LET v == [i \in 1..(nextSeq'[k] - nextSeq[k]) |-> Val(k, nextSeq[k] + i)]
        IN  IF sampling_mode
            THEN /\ sample_data'[k] = v[Len(v)]
                 /\ Get(trig_data', k) = Get(trig_data, k)
                 /\ Get(data', k) = Get(data, k)
            ELSE IF trigger_mode
            THEN /\ trig_data'[k] = LastN(Get(trig_data, k) \o v, max_length)
                 /\ Get(data', k) = Get(data, k)
                 /\ sample_data' = sample_data
            ELSE /\ data'[k] = LastN(Get(data, k) \o v, max_length)
                 /\ Get(trig_data', k) = Get(trig_data, k)
                 /\ sample_data' = sample_data]_vars

\* C33: in trigger mode a frame-ready signal is fired only by a window
\* emission: the engine is latched (not Armed), it is not in data-behind
\* after the step, and, when the store holds the time reference, the
\* trigger timestamp lies inside it (no missed trigger, no data behind)
\* with at least max_length / 2 samples from its index on
C33_SignalOnlyOnEmission ==
    [][ /\ pending' > pending => ev'.emit
        /\ ev'.emit =>
              /\ trigger_mode
              /\ is_triggered_ \/ ev'.latched
              /\ is_triggered_'
              /\ ~data_behind'
              /\ pending' >= 1
              /\ DataTimeField \in DOMAIN trig_data' =>
                    LET t == trig_data'[DataTimeField]
                        after == {i \in 1..Len(t) : t[i] >= trigger_timestamp'}
                    IN  /\ t[1] <= trigger_timestamp'
                        /\ trigger_timestamp' <= t[Len(t)]
                        /\ 2 * Cardinality(after) >= max_length' - 1
      ]_vars

\* a trigger value was latched and its window emitted at once from the
\* samples already stored
C33_Witness ==
    /\ ev.op = "trigger"
    /\ ev.latched
    /\ ev.emit
    /\ ev.idx >= 1
    /\ pending >= 1
    /\ Len(trig_data[DataTimeField]) >= 3

\* C34: a window emission writes the window slice to the display buffer of
\* exactly the fields whose trigger-local buffer is as long as the time
\* reference; a field whose buffer is shorter or longer keeps its display
\* data
C34_WindowOnlyForMatchingFields ==
    [][ (ev'.emit /\ ev'.idx >= 0) =>
          LET size == Len(trig_data'[DataTimeField])
              required == max_length' \div 2
              first == IF ev'.idx > required THEN ev'.idx - required ELSE 0
              last == IF ev'.idx + required < size THEN ev'.idx + required
                      ELSE size
          IN  \A k \in DOMAIN trig_data' :
                  IF Len(trig_data'[k]) = size
                  THEN data'[k] = SubSeq(trig_data'[k], first + 1, last)
                  ELSE Get(data', k) = Get(data, k)
      ]_vars

\* C35: between the latch of a trigger and its resolution no further
\* trigger value is latched and the captured trigger timestamp does not
\* change, however many trigger values arrive
C35_NoLatchWhileLatched ==
    [][ (is_triggered_ /\ ~trigger_data_done) =>
          /\ ~ev'.latched
          /\ is_triggered_' => (trigger_timestamp' = trigger_timestamp
                                  /\ ~trigger_data_done')
      ]_vars

\* a qualifying trigger value arrived while an earlier one was latched and
\* unresolved, and was not latched
C35_Witness ==
    /\ ev.op = "trigger"
    /\ ~ev.latched
    /\ ~ev.first
    /\ trigger_count > FirstCount
    /\ is_triggered_
    /\ ~trigger_data_done
    /\ ~data_behind

\* C36: the first array id observed after the acquisition is started or
\* restarted never increments the lost-array count, whatever id was seen
\* last before
C36_FirstIdAfterStartNotLost ==
    [][(ev.op = "start" /\ ev'.op = "data") => lostArrays' = lostArrays]_vars

\* C37: a poll rejected because an earlier asynchronous get is outstanding
\* is dropped: the channel is as before (not FailedToConnect), no status
\* event and no data callback fire, and no request is issued in its place
C37_RejectedPollDropped ==
    [][(cev'.op = "poll" /\ cev'.err) =>
          /\ channels' = channels
          /\ last_status' = last_status
          /\ cev'.sent = << >>
          /\ ~cev'.handed
          /\ ~cev'.raised
          /\ outstanding' = outstanding
      ]_vars

\* a poll of a connected channel was rejected while a request was
\* outstanding
C37_Witness ==
    /\ cev.op = "poll"
    /\ cev.err
    /\ outstanding[cev.ch] > 0
    /\ channels[cev.ch].state = "CONNECTED"
    /\ "poll" \in channels[cev.ch].running

\* C38: a connectivity callback of the monitor strategy that reports a
\* disconnection moves a running channel to FAILED_TO_CONNECT, never to
\* DISCONNECTED, and changes nothing on a channel that is not running; one
\* that reports a connection moves the channel to CONNECTED
C38_DisconnectIsAnError ==
    [][cev'.op \in {"connected", "disconnected"}
        => LET before == channels[cev'.ch]
               after == channels'[cev'.ch]
           IN  IF cev'.op = "connected"
               THEN /\ after.state = "CONNECTED"
                    /\ after.running = before.running
               ELSE IF before.state \in {"CONNECTED", "CONNECTING"}
               THEN /\ after.state = "FAILED_TO_CONNECT"
                    /\ cev'.sent # << >> => cev'.sent[Len(cev'.sent)].state
                                              = "FAILED_TO_CONNECT"
               ELSE /\ after = before
                    /\ cev'.sent = << >>
                    /\ last_status' = last_status]_vars

\* the monitor of a connected channel reported the loss of the connection
C38_Witness ==
    /\ cev.op = "disconnected"
    /\ cev.sent # << >>
    /\ channels[cev.ch].state = "FAILED_TO_CONNECT"
    /\ "monitor" \in channels[cev.ch].running
    /\ last_status[cev.ch] = "FAILED_TO_CONNECT"

\* C39: after Channel.delete the channel is stopped and deactivated, its
\* name is no longer in the channel cache, and the DataSource's current
\* channel is no longer the deleted one, so that no later get, start or
\* stop acts on it
C39_DeletedChannelForgotten ==
    /\ [][(cev'.op = "delete" /\ ~cev'.raised) =>
            /\ channels'[cev'.ch].state = "EMPTY"
            /\ channels'[cev'.ch].running = {}
            /\ channels'[cev'.ch].status_callback = None
            /\ channel_cache'[channels[cev'.ch].name] = NoChannel
            /\ channel' # cev'.ch]_vars
    /\ [][(cev'.op = "get" /\ cev'.ch = channel) => channels[channel].live]_vars

\* C40: while plotting is started, a request that would switch trigger mode
\* on or off is rejected with a warning and leaves the trigger mode, the
\* trigger type and the trigger subscription as they were; the trigger mode
\* changes only while plotting is stopped
C40_ModeFixedWhilePlotting ==
    /\ [][plotting_started => trigger_mode' = trigger_mode]_vars
    /\ [][(plotting_started /\ ~trigger_mode)
            => trigger_type' = trigger_type]_vars
    /\ [][ev'.op \in {"mode", "warning"}
            => /\ trigger_is_monitor' = trigger_is_monitor
               /\ plotting_started' = plotting_started
               /\ ev'.op = "warning"
                    => /\ plotting_started
                       /\ trigger_mode' = trigger_mode
                       /\ trigger_type' = trigger_type]_vars

\* a request to switch trigger mode off was rejected while plotting in
\* trigger mode
C40_Witness ==
    /\ ev.op = "warning"
    /\ plotting_started
    /\ trigger_mode
    /\ trigger_type = "gtthreshold"
    /\ trigger_is_monitor

====
